---- MODULE Spec2Model ----
(***************************************************************************)
(* A model of the search-request guard pipeline of semantic-docs:          *)
(*   - the in-memory fixed-window rate limiter (src/middleware/rateLimit.ts)*)
(*   - the origin validator and the POST handler of /api/search.json       *)
(*     (src/pages/api/search.json.ts)                                      *)
(*                                                                         *)
(* Strings are TLA+ strings; an optional value (a header that may be       *)
(* absent, an undefined site URL) is a sequence of length at most one:     *)
(* None for null/undefined, Some(v) for the value v.                       *)
(***************************************************************************)
EXTENDS Integers, Sequences, FiniteSets, TLC

VARIABLES
    rateLimitStore,   \* Map<string, RateLimitEntry>: client id -> [count, resetTime]
    now,              \* Date.now(), in milliseconds
    sweepDue,         \* the time the cleanup timer is next due
    config,           \* the RateLimitConfig the limiter is called with
    lastCall,         \* observer: the latest checkRateLimit call, None before the first
    windows,          \* observer: per client id, its current window and what it was last told
    nCalls,           \* number of checkRateLimit calls so far (bounds the exploration)
    ticks,            \* number of clock advances so far (bounds the exploration)
    vo,               \* validateOrigin called on its own: the arguments and the outcome
    deploy,           \* the deployment: NODE_ENV in import.meta.env and process.env, the site URL
    post,             \* the POST handler invocation under observation
    pair,             \* two requests checked one after the other: their headers, ids and counts
    hdr,              \* createRateLimitHeaders called on its own: the argument and the outcome
    server,           \* the POST handler invocations in flight on one server, in order of arrival
    shadow,           \* the limiter run on the same calls without the cleanup timer
    grants            \* observer: the allowed calls of one client id, each with its time and window

limiterVars == <<rateLimitStore, now, sweepDue, config, lastCall, windows, nCalls, ticks>>
postVars == <<deploy, post>>

probeVars == <<pair, hdr, server, shadow, grants>>

vars == <<limiterVars, vo, postVars, probeVars>>

----------------------------------------------------------------------------
(* Bounds of the exploration *)

MaxCalls == 3          \* checkRateLimit calls in one behaviour
MaxTicks == 3          \* clock advances in one behaviour
MaxClients == 3        \* distinct client ids in one behaviour

----------------------------------------------------------------------------
(* Optional values *)

None == << >>
Some(v) == <<v>>
IsSome(o) == Len(o) = 1
Get(o) == o[1]

Max(a, b) == IF a >= b THEN a ELSE b
Min(a, b) == IF a <= b THEN a ELSE b

----------------------------------------------------------------------------
(* String helpers: what the JavaScript string methods and regular          *)
(* expressions used by the code do.                                        *)

CharAt(s, i) == SubSeq(s, i, i)

Digits == {"0", "1", "2", "3", "4", "5", "6", "7", "8", "9"}
Whitespace == {" ", "\t"}

\* every character of s is in the set cs
AllIn(s, cs) == \A i \in 1..Len(s) : CharAt(s, i) \in cs

\* index of the first occurrence of the one-character string c in s at or
\* after position from, or 0
RECURSIVE IndexFrom(_, _, _)
IndexFrom(s, c, from) ==
    IF from > Len(s) THEN 0
    ELSE IF CharAt(s, from) = c THEN from
    ELSE IndexFrom(s, c, from + 1)

\* String.prototype.split(c): the sequence of pieces between occurrences of c
RECURSIVE Split(_, _)
Split(s, c) ==
    LET i == IndexFrom(s, c, 1) IN
    IF i = 0 THEN <<s>>
    ELSE <<SubSeq(s, 1, i - 1)>> \o Split(SubSeq(s, i + 1, Len(s)), c)

\* String.prototype.trim(): leading and trailing whitespace removed
RECURSIVE TrimStart(_)
TrimStart(s) ==
    IF Len(s) > 0 /\ CharAt(s, 1) \in Whitespace
    THEN TrimStart(SubSeq(s, 2, Len(s)))
    ELSE s

RECURSIVE TrimEnd(_)
TrimEnd(s) ==
    IF Len(s) > 0 /\ CharAt(s, Len(s)) \in Whitespace
    THEN TrimEnd(SubSeq(s, 1, Len(s) - 1))
    ELSE s

Trim(s) == TrimEnd(TrimStart(s))

----------------------------------------------------------------------------
(* isValidIpAddress *)

\* (?:25[0-5]|2[0-4][0-9]|[01]?[0-9][0-9]?)
IsOctet(p) ==
    \/ Len(p) = 3 /\ SubSeq(p, 1, 2) = "25"
                  /\ CharAt(p, 3) \in {"0", "1", "2", "3", "4", "5"}
    \/ Len(p) = 3 /\ CharAt(p, 1) = "2"
                  /\ CharAt(p, 2) \in {"0", "1", "2", "3", "4"}
                  /\ CharAt(p, 3) \in Digits
    \/ Len(p) = 3 /\ CharAt(p, 1) \in {"0", "1"}
                  /\ CharAt(p, 2) \in Digits /\ CharAt(p, 3) \in Digits
    \/ Len(p) \in {1, 2} /\ AllIn(p, Digits)

\* ipv4Regex: four octets separated by dots
IsIpv4(ip) ==
    LET parts == Split(ip, ".") IN
    Len(parts) = 4 /\ \A i \in 1..4 : IsOctet(parts[i])

\* [a-fA-F0-9]{1,4}
IsHexGroup(p) ==
    /\ Len(p) \in 1..4
    /\ AllIn(p, Digits \cup {"a", "b", "c", "d", "e", "f", "A", "B", "C", "D", "E", "F"})

\* ipv6Regex: eight groups, or one "::" with n groups before it and m after
\* it, where the alternatives of the expression allow exactly (0, 1..7),
\* (1..7, 0) and n, m >= 1 with n + m <= 7
IsIpv6(ip) ==
    LET parts == Split(ip, ":")
        k == Len(parts)
        empties == {i \in 1..k : parts[i] = ""}
        groupsOk(S) == \A i \in S : IsHexGroup(parts[i])
    IN
    \/ k = 8 /\ empties = {}  /\ groupsOk(1..8)
       \* ^::(H:){0,6}H$
    \/ k \in 3..9 /\ empties = {1, 2} /\ groupsOk(3..k)
       \* ^(H:){1,7}:$
    \/ k \in 3..9 /\ empties = {k - 1, k} /\ groupsOk(1..(k - 2))
       \* n groups, "::", m groups
    \/ \E e \in 2..(k - 1) :
          /\ empties = {e}
          /\ k - 1 <= 7
          /\ groupsOk((1..k) \ {e})

IsValidIpAddress(ip) == IsIpv4(ip) \/ IsIpv6(ip)

----------------------------------------------------------------------------
(* Requests, as far as the limiter reads them: the three proxy headers,    *)
(* each absent (None) or present with a value.                             *)


HeaderOf(request, name) ==
    CASE name = "cf-connecting-ip" -> request.cf
      [] name = "x-real-ip"        -> request.realIp
      [] name = "x-forwarded-for"  -> request.xff

\* mutant: the first entry is taken as it stands, without trim()
FirstForwarded_Untrimmed(h) ==
    IF IsSome(h) THEN Some(Split(Get(h), ",")[1]) ELSE None

\* request.headers.get('x-forwarded-for')?.split(',')[0]?.trim() ?? null
FirstForwarded(h) ==
    IF IsSome(h) THEN Some(Trim(Split(Get(h), ",")[1])) ELSE None

\* mutant: when the trusted header is absent, cf-connecting-ip is read instead
ProxyIp_FallsThrough(request, trustedProxyHeader) ==
    LET selected == IF trustedProxyHeader = "x-forwarded-for"
                    THEN FirstForwarded(request.xff)
                    ELSE HeaderOf(request, trustedProxyHeader)
    IN  IF IsSome(selected) THEN selected ELSE request.cf

\* the candidate address the switch statement selects
ProxyIp(request, trustedProxyHeader) ==
    CASE trustedProxyHeader = "cf-connecting-ip" -> request.cf
      [] trustedProxyHeader = "x-real-ip"        -> request.realIp
      [] trustedProxyHeader = "x-forwarded-for"  -> FirstForwarded(request.xff)

\* `unknown-${Date.now()}-${Math.random().toString(36).slice(2)}`
FallbackId(t, rnd) == "unknown-" \o ToString(t) \o "-" \o rnd

\* getClientId: trustedProxyHeader is None (undefined) or Some(header name);
\* t is Date.now() and rnd the digits Math.random() produces
GetClientId(request, trustedProxyHeader, t, rnd) ==
    LET proxyIp == IF IsSome(trustedProxyHeader)
                   THEN ProxyIp(request, Get(trustedProxyHeader))
                   ELSE None
    IN  IF IsSome(proxyIp) /\ Get(proxyIp) # "" /\ IsValidIpAddress(Get(proxyIp))
        THEN Get(proxyIp)
        ELSE FallbackId(t, rnd)

----------------------------------------------------------------------------
(* checkRateLimit *)

\* rateLimitStore.get(clientId): None when the map has no such key
StoreGet(store, clientId) ==
    IF clientId \in DOMAIN store THEN Some(store[clientId]) ELSE None

\* mutant: the map is rebuilt with the one entry, the other ids are dropped
StoreSet_DropOthers(store, clientId, entry) == clientId :> entry

\* rateLimitStore.set(clientId, entry), the later entry.count++ included
StoreSet(store, clientId, entry) == (clientId :> entry) @@ store

\* mutant: the window already counts as expired at now = resetTime
WindowExpired_Inclusive(entry, t) == ~IsSome(entry) \/ t >= Get(entry).resetTime

\* !entry || now > entry.resetTime
WindowExpired(entry, t) == ~IsSome(entry) \/ t > Get(entry).resetTime

\* mutant: a call over the limit is answered without being counted
NextEntry_Peek(entry, t, cfg) ==
    LET windowMs == cfg.windowSeconds * 1000
        base == IF WindowExpired(entry, t)
                THEN [count |-> 0, resetTime |-> t + windowMs]
                ELSE Get(entry)
    IN  [base EXCEPT !.count = IF @ > cfg.maxRequests THEN @ ELSE @ + 1]

\* mutant: every call moves the end of the window (a sliding window)
NextEntry_Sliding(entry, t, cfg) ==
    LET windowMs == cfg.windowSeconds * 1000
        base == IF WindowExpired(entry, t)
                THEN [count |-> 0, resetTime |-> t + windowMs]
                ELSE Get(entry)
    IN  [count |-> base.count + 1, resetTime |-> t + windowMs]

\* the entry the call leaves in the store: a fresh one when the window has
\* expired, the stored one otherwise, with count incremented
NextEntry(entry, t, cfg) ==
    LET windowMs == cfg.windowSeconds * 1000
        base == IF WindowExpired(entry, t)
                THEN [count |-> 0, resetTime |-> t + windowMs]
                ELSE Get(entry)
    IN  [base EXCEPT !.count = @ + 1]

\* mutant: one request more than the limit is allowed
IsAllowed_OneMore(count, maxRequests) == count <= maxRequests + 1

\* mutant: the request that reaches the limit is already denied
IsAllowed_Strict(count, maxRequests) == count < maxRequests

\* entry.count <= config.maxRequests
IsAllowed(count, maxRequests) == count <= maxRequests

\* mutant: the difference is returned as it is, without Math.max(0, ...)
Remaining_Unclamped(count, maxRequests) == maxRequests - count

\* Math.max(0, config.maxRequests - entry.count)
Remaining(count, maxRequests) == Max(0, maxRequests - count)

\* the RateLimitResult returned for the entry after the increment
ResultOf(entry, cfg) ==
    [allowed   |-> IsAllowed(entry.count, cfg.maxRequests),
     limit     |-> cfg.maxRequests,
     remaining |-> Remaining(entry.count, cfg.maxRequests),
     resetTime |-> entry.resetTime]

\* checkRateLimit(request, config) at time t: the new store and the result
CheckRateLimit(store, request, cfg, t, rnd) ==
    LET clientId == GetClientId(request, cfg.trustedProxyHeader, t, rnd)
        entry == NextEntry(StoreGet(store, clientId), t, cfg)
    IN  [store    |-> StoreSet(store, clientId, entry),
         clientId |-> clientId,
         result   |-> ResultOf(entry, cfg)]

\* mutant: the callback deletes nothing
Cleanup_Nothing(store, t) == store

\* mutant: an entry is already deleted at now = entry.resetTime
Cleanup_Inclusive(store, t) ==
    [k \in {c \in DOMAIN store : ~(t >= store[c].resetTime)} |-> store[k]]

\* the setInterval callback: every entry with now > entry.resetTime is deleted
Cleanup(store, t) ==
    [k \in {c \in DOMAIN store : ~(t > store[c].resetTime)} |-> store[k]]

CLEANUP_INTERVAL_MS == 300000

----------------------------------------------------------------------------
(* The limiter as a state machine: requests arrive, the clock advances,    *)
(* the cleanup timer fires.                                                *)

LimiterRequests ==
    {[xff |-> x, cf |-> None, realIp |-> None] :
        x \in {None, Some("1.2.3.4"), Some(" 1.2.3.4 , 10.0.0.1"),
               Some("5.6.7.8"), Some("invalid-ip-address")}}

\* what Math.random().toString(36).slice(2) may produce
RandomSuffixes == {"k3j9", "x07q"}

LimiterConfigs ==
    {[maxRequests |-> n, windowSeconds |-> w, trustedProxyHeader |-> h] :
        n \in {1, 2, 3}, w \in {1}, h \in {Some("x-forwarded-for")}}

StartTimes == {1250}
LimiterTickSteps == {500}
\* how long after the initial state the cleanup timer is next due: the
\* process has been up, without requests, for the rest of the interval
SweepOffsets == {1000}

EmptyStore == [k \in {} |-> 0]

\* Observer of the calls, in the words of the limiter's contract: a window of
\* a client id starts with a call made when the id has no window or its
\* window has passed, and lasts windowSeconds; k counts the calls in it.
\* last/lastAt are the result and time of the id's latest call, prev/prevAt
\* those of the call before it (None before the second call).
ObserveWindow(w, clientId, t, cfg, result) ==
    LET known == clientId \in DOMAIN w
        fresh == \/ ~known
                 \/ t > w[clientId].start + cfg.windowSeconds * 1000
        rec == [start  |-> IF fresh THEN t ELSE w[clientId].start,
                k      |-> IF fresh THEN 1 ELSE w[clientId].k + 1,
                last   |-> result,
                lastAt |-> t,
                prev   |-> IF known THEN Some(w[clientId].last) ELSE None,
                prevAt |-> IF known THEN w[clientId].lastAt ELSE 0]
    IN  (clientId :> rec) @@ w

LimiterInit(configs) ==
    /\ rateLimitStore = EmptyStore
    /\ now \in StartTimes
    /\ sweepDue \in {now + d : d \in SweepOffsets}
    /\ config \in configs
    /\ lastCall = None
    /\ windows = EmptyStore
    /\ nCalls = 0
    /\ ticks = 0

\* validateOrigin has not been called
VoIdle == [origin |-> None, referer |-> None, twinReferer |-> None,
           siteUrl |-> None,
           currentEnv |-> [isDevelopment |-> FALSE, isTest |-> FALSE],
           result |-> "none", twinResult |-> "none"]

\* no POST handler has been invoked.  origin is what validateOrigin gave,
\* rate the result of checkRateLimit, json how request.json() settled,
\* stages the stages entered so far, searched the outcome of the search stage
\* (getTursoClient and search), headers the handler's rateLimitHeaders,
\* logged the error handed to logger.error.
NoHeaders == [h \in {} |-> ""]
PostIdle == [pc |-> "idle", origin |-> "none", rate |-> None, json |-> None,
             stages |-> << >>, searchCalls |-> 0, searchArgs |-> None,
             searched |-> "none", logged |-> None,
             headers |-> NoHeaders, response |-> None, threw |-> FALSE]

\* a deployment that sets neither NODE_ENV nor the site URL, no request
PostAbsent ==
    /\ deploy = [metaNodeEnv |-> None, processNodeEnv |-> None, site |-> None]
    /\ post = PostIdle

\* no pair of requests is followed
PairIdle == [first |-> None, second |-> None, stage |-> "none",
             id1 |-> "", id2 |-> "", count1 |-> 0, count2 |-> 0,
             reset1 |-> 0, at2 |-> 0]

\* createRateLimitHeaders has no argument yet
HdrIdle == [result |-> [allowed |-> TRUE, limit |-> 0, remaining |-> 0,
                        resetTime |-> 0],
            headers |-> None]

\* no invocation has arrived; earlier is the number of requests of
\* EarlierClient handled before the observation starts, at time earlierAt
ServerIdle == [earlier |-> 0, earlierAt |-> 0, handlers |-> << >>]

\* the limiter without the timer has not been called
ShadowIdle == [store |-> EmptyStore, result |-> None]

\* no call has been allowed
NoGrants == << >>

ProbesIdle ==
    /\ pair = PairIdle /\ hdr = HdrIdle /\ server = ServerIdle
    /\ shadow = ShadowIdle /\ grants = NoGrants

Init == LimiterInit(LimiterConfigs) /\ vo = VoIdle /\ PostAbsent /\ ProbesIdle

\* one call of checkRateLimit(request, config)
Check(request, rnd) ==
    /\ nCalls < MaxCalls
    /\ LET r == CheckRateLimit(rateLimitStore, request, config, now, rnd) IN
       /\ Cardinality(DOMAIN windows \cup {r.clientId}) <= MaxClients
       /\ rateLimitStore' = r.store
       /\ lastCall' = Some([clientId |-> r.clientId, at |-> now,
                            result |-> r.result])
       /\ windows' = ObserveWindow(windows, r.clientId, now, config, r.result)
    /\ nCalls' = nCalls + 1
    /\ UNCHANGED <<now, sweepDue, config, ticks, vo, postVars, probeVars>>

\* the clock advances by d milliseconds
Tick(d) ==
    /\ ticks < MaxTicks
    /\ now' = now + d
    /\ ticks' = ticks + 1
    /\ UNCHANGED <<rateLimitStore, sweepDue, config, lastCall, windows, nCalls, vo, postVars, probeVars>>

\* the cleanup timer fires, no earlier than it is due
Sweep ==
    /\ now >= sweepDue
    /\ rateLimitStore' = Cleanup(rateLimitStore, now)
    /\ sweepDue' = sweepDue + CLEANUP_INTERVAL_MS
    /\ UNCHANGED <<now, config, lastCall, windows, nCalls, ticks, vo, postVars, probeVars>>

Next ==
    \/ \E request \in LimiterRequests, rnd \in RandomSuffixes : Check(request, rnd)
    \/ \E d \in LimiterTickSteps : Tick(d)
    \/ Sweep

Spec == Init /\ [][Next]_vars

----------------------------------------------------------------------------
(* new URL(x).origin, for the URLs the validator meets.  The WHATWG parser  *)
(* is followed for http and https URLs: scheme and host are lower-cased,    *)
(* userinfo, path, query and fragment are dropped, a default port is        *)
(* omitted; a string without a scheme does not parse (the constructor       *)
(* throws); any other scheme has the opaque origin "null".  Percent         *)
(* decoding, IDNA and the canonical forms of IP literals are not modelled:  *)
(* the inputs below do not need them.                                       *)

UpperAlpha == "ABCDEFGHIJKLMNOPQRSTUVWXYZ"
LowerAlpha == "abcdefghijklmnopqrstuvwxyz"
Letters == {CharAt(UpperAlpha, i) : i \in 1..26} \cup {CharAt(LowerAlpha, i) : i \in 1..26}

LowerChar(c) ==
    IF \E i \in 1..26 : CharAt(UpperAlpha, i) = c
    THEN CharAt(LowerAlpha, CHOOSE i \in 1..26 : CharAt(UpperAlpha, i) = c)
    ELSE c

RECURSIVE ToLowerCase(_)
ToLowerCase(s) ==
    IF s = "" THEN ""
    ELSE LowerChar(CharAt(s, 1)) \o ToLowerCase(SubSeq(s, 2, Len(s)))

DigitValue(c) == (CHOOSE i \in 1..10 : CharAt("0123456789", i) = c) - 1

\* the number a non-empty string of digits denotes, capped above 65535
RECURSIVE ParseDigits(_, _)
ParseDigits(s, acc) ==
    IF s = "" THEN acc
    ELSE ParseDigits(SubSeq(s, 2, Len(s)),
                     Min(65536, acc * 10 + DigitValue(CharAt(s, 1))))

\* the first position at or after from whose character is in cs, or 0
RECURSIVE IndexOfAny(_, _, _)
IndexOfAny(s, cs, from) ==
    IF from > Len(s) THEN 0
    ELSE IF CharAt(s, from) \in cs THEN from
    ELSE IndexOfAny(s, cs, from + 1)

\* the last position whose character is c, or 0
RECURSIVE LastIndexOf(_, _, _)
LastIndexOf(s, c, from) ==
    IF from < 1 THEN 0
    ELSE IF CharAt(s, from) = c THEN from
    ELSE LastIndexOf(s, c, from - 1)

RECURSIVE SkipSlashes(_)
SkipSlashes(s) ==
    IF Len(s) > 0 /\ CharAt(s, 1) \in {"/", "\\"}
    THEN SkipSlashes(SubSeq(s, 2, Len(s)))
    ELSE s

DefaultPort(scheme) == IF scheme = "https" THEN 443 ELSE 80

SchemeChars == Letters \cup Digits \cup {"+", "-", "."}
HostChars == Letters \cup Digits \cup {"-", ".", "_"}

\* host[:port] of an http(s) URL to its serialisation, None when it is invalid
HostPortOrigin(scheme, hostport) ==
    LET bracket == CharAt(hostport, 1) = "["
        close == IndexFrom(hostport, "]", 1)
        colon == IF bracket THEN (IF close = 0 THEN 0
                                  ELSE IF close = Len(hostport) THEN 0
                                  ELSE close + 1)
                 ELSE IndexFrom(hostport, ":", 1)
        host == ToLowerCase(IF colon = 0 THEN hostport
                            ELSE SubSeq(hostport, 1, colon - 1))
        port == IF colon = 0 THEN "" ELSE SubSeq(hostport, colon + 1, Len(hostport))
        hostOk == IF bracket
                  THEN /\ close > 0
                       /\ Len(host) = close
                       /\ IsIpv6(SubSeq(host, 2, close - 1))
                       /\ (colon = 0 \/ CharAt(hostport, colon) = ":")
                  ELSE host # "" /\ AllIn(host, HostChars)
        portOk == AllIn(port, Digits) /\ (port = "" \/ ParseDigits(port, 0) <= 65535)
    IN  IF ~hostOk \/ ~portOk THEN None
        ELSE IF port = "" \/ ParseDigits(port, 0) = DefaultPort(scheme)
        THEN Some(scheme \o "://" \o host)
        ELSE Some(scheme \o "://" \o host \o ":" \o ToString(ParseDigits(port, 0)))

\* new URL(url).origin: None when the constructor throws
UrlOrigin(url) ==
    LET colon == IndexFrom(url, ":", 1)
        scheme == ToLowerCase(SubSeq(url, 1, colon - 1))
        rest == SkipSlashes(SubSeq(url, colon + 1, Len(url)))
        stop == IndexOfAny(rest, {"/", "\\", "?", "#"}, 1)
        authority == IF stop = 0 THEN rest ELSE SubSeq(rest, 1, stop - 1)
        at == LastIndexOf(authority, "@", Len(authority))
        hostport == SubSeq(authority, at + 1, Len(authority))
    IN  IF colon <= 1 THEN None
        ELSE IF ~(CharAt(scheme, 1) \in Letters /\ AllIn(scheme, SchemeChars)) THEN None
        ELSE IF scheme \notin {"http", "https"} THEN Some("null")
        ELSE IF hostport = "" THEN None
        ELSE HostPortOrigin(scheme, hostport)

----------------------------------------------------------------------------
(* validateOrigin *)

\* String.prototype.startsWith
StartsWith(s, prefix) ==
    Len(s) >= Len(prefix) /\ SubSeq(s, 1, Len(prefix)) = prefix

\* /^https?:\/\/<host>(:\d+)?$/ for a literal host
MatchesLoopbackPattern(s, host) ==
    \E scheme \in {"http", "https"} :
        LET prefix == scheme \o "://" \o host IN
        \/ s = prefix
        \/ /\ StartsWith(s, prefix \o ":")
           /\ Len(s) > Len(prefix) + 1
           /\ AllIn(SubSeq(s, Len(prefix) + 2, Len(s)), Digits)

\* mutant: the patterns without the closing anchor
MatchesLocalhost_Unanchored(requestOrigin) ==
    \E scheme \in {"http", "https"}, host \in {"localhost", "127.0.0.1", "[::1]"} :
        StartsWith(requestOrigin, scheme \o "://" \o host)

\* localhostPatterns.some((pattern) => pattern.test(requestOrigin))
MatchesLocalhost(requestOrigin) ==
    \E host \in {"localhost", "127.0.0.1", "[::1]"} :
        MatchesLoopbackPattern(requestOrigin, host)

\* mutant: the origin only has to start with the site origin
MatchesSite_Prefix(requestOrigin, siteUrl) ==
    IsSome(siteUrl) /\ StartsWith(requestOrigin, Get(UrlOrigin(Get(siteUrl))))

\* mutant: the origin is compared with the site URL itself, not its origin
MatchesSite_Href(requestOrigin, siteUrl) ==
    IsSome(siteUrl) /\ requestOrigin = Get(siteUrl)

\* siteUrl && requestOrigin === siteUrl.origin
MatchesSite(requestOrigin, siteUrl) ==
    IsSome(siteUrl) /\ requestOrigin = Get(UrlOrigin(Get(siteUrl)))

\* a header value that is null or the empty string is falsy
Truthy(h) == IsSome(h) /\ Get(h) # ""

\* mutant: a Referer that does not parse counts as no Referer
RequestOrigin_SwallowsError(origin, referer) ==
    IF Truthy(origin) THEN [threw |-> FALSE, value |-> origin]
    ELSE IF Truthy(referer)
    THEN [threw |-> FALSE, value |-> UrlOrigin(Get(referer))]
    ELSE [threw |-> FALSE, value |-> None]

\* mutant: the Referer is consulted first
RequestOrigin_RefererFirst(origin, referer) ==
    IF Truthy(referer)
    THEN (IF IsSome(UrlOrigin(Get(referer)))
          THEN [threw |-> FALSE, value |-> UrlOrigin(Get(referer))]
          ELSE [threw |-> TRUE, value |-> None])
    ELSE [threw |-> FALSE, value |-> IF Truthy(origin) THEN origin ELSE None]

\* origin || (referer ? new URL(referer).origin : null); threw when the URL
\* constructor throws
RequestOrigin(origin, referer) ==
    IF Truthy(origin) THEN [threw |-> FALSE, value |-> origin]
    ELSE IF Truthy(referer)
    THEN (IF IsSome(UrlOrigin(Get(referer)))
          THEN [threw |-> FALSE, value |-> UrlOrigin(Get(referer))]
          ELSE [threw |-> TRUE, value |-> None])
    ELSE [threw |-> FALSE, value |-> None]

\* currentEnv.isDevelopment || currentEnv.isTest
Relaxed(currentEnv) == currentEnv.isDevelopment \/ currentEnv.isTest

\* validateOrigin(request, siteUrl, envOverride): "true", "false", or
\* "TypeError" when new URL(referer) throws
ValidateOrigin(origin, referer, siteUrl, currentEnv) ==
    LET ro == RequestOrigin(origin, referer) IN
    IF ro.threw THEN "TypeError"
    ELSE IF ~Truthy(ro.value)
    THEN (IF Relaxed(currentEnv) THEN "true" ELSE "false")
    ELSE IF MatchesSite(Get(ro.value), siteUrl) THEN "true"
    ELSE IF Relaxed(currentEnv)
    THEN (IF MatchesLocalhost(Get(ro.value)) THEN "true" ELSE "false")
    ELSE "false"

----------------------------------------------------------------------------
(* validateOrigin as a pure function: the arguments are drawn in the       *)
(* initial state, one action applies the function to the request, a second *)
(* one to its twin, the same request with another Referer header.          *)

OriginHeaders ==
    {None, Some("")} \cup
    {Some(o) : o \in
        {"https://example.com", "https://EXAMPLE.COM", "https://example.com:443",
         "https://example.com:8080", "http://example.com", "https://example.com/",
         "https://evil.example.com", "https://example.com.evil.com",
         "https://evil-example.com", "https://examp1e.com", "https://example.co",
         "https://evil.com", "null",
         "http://localhost", "http://localhost:4321", "https://localhost:3000",
         "http://127.0.0.1", "http://127.0.0.1:8080", "http://[::1]",
         "http://[::1]:5173", "http://localhost.evil.com", "http://evil-localhost",
         "http://localhost:", "http://localhost:80a"}}

RefererHeaders ==
    {None, Some("")} \cup
    {Some(r) : r \in
        {"https://example.com/some/page", "https://EXAMPLE.COM:443/search?q=test#s",
         "https://evil.com/page",
         "https://example.com.evil.com/", "https://example.com@evil.com/",
         "http://localhost:4321/page", "not-a-valid-url"}}

OriginInit ==
    /\ rateLimitStore = EmptyStore
    /\ now \in StartTimes
    /\ sweepDue \in {now + d : d \in SweepOffsets}
    /\ config = [maxRequests |-> 10, windowSeconds |-> 60, trustedProxyHeader |-> None]
    /\ lastCall = None
    /\ windows = EmptyStore
    /\ nCalls = 0
    /\ ticks = 0
    \* the Referer of the twin request: absent, of the site, foreign,
    \* malformed
    /\ vo \in {[origin |-> o, referer |-> r, twinReferer |-> t, siteUrl |-> u,
                currentEnv |-> e, result |-> "none", twinResult |-> "none"] :
                  o \in OriginHeaders, r \in RefererHeaders,
                  t \in {None, Some("https://example.com/some/page"),
                         Some("https://evil.com/page"), Some("not-a-valid-url")},
                  u \in {None, Some("https://example.com"),
                         Some("https://EXAMPLE.COM/docs"),
                         Some("https://example.com:8080/path")},
                  e \in [isDevelopment : BOOLEAN, isTest : BOOLEAN]}
    /\ PostAbsent
    /\ ProbesIdle

\* validateOrigin(request, siteUrl, currentEnv)
OriginValidate ==
    /\ vo.result = "none"
    /\ vo' = [vo EXCEPT !.result =
                 ValidateOrigin(vo.origin, vo.referer, vo.siteUrl, vo.currentEnv)]
    /\ UNCHANGED <<limiterVars, postVars, probeVars>>

\* validateOrigin on the twin request
OriginValidateTwin ==
    /\ vo.result # "none"
    /\ vo.twinResult = "none"
    /\ vo' = [vo EXCEPT !.twinResult =
                 ValidateOrigin(vo.origin, vo.twinReferer, vo.siteUrl, vo.currentEnv)]
    /\ UNCHANGED <<limiterVars, postVars, probeVars>>

OriginNext == OriginValidate \/ OriginValidateTwin

SpecOrigin == OriginInit /\ [][OriginNext]_vars

----------------------------------------------------------------------------
(* Properties of the limiter *)

\* the step is one call of checkRateLimit
IsCheckStep == nCalls' = nCalls + 1

\* C1: for one client id under a fixed configuration with maxRequests = N >= 1,
\* the k-th call inside one window returns allowed = TRUE exactly when k <= N,
\* with remaining = max(0, N - k) and limit = N; remaining is never negative.
C1_KthCallAllowedIffWithinLimit ==
    \A c \in DOMAIN windows :
        LET k == windows[c].k
            r == windows[c].last
            N == config.maxRequests
        IN  N >= 1 =>
              /\ r.allowed <=> (k <= N)
              /\ r.remaining = (IF N - k > 0 THEN N - k ELSE 0)
              /\ r.limit = N
              /\ r.remaining >= 0

\* a client id has made N + 1 calls in one window, N >= 2: the last is denied
\* with remaining 0, the one before it was allowed with remaining 0
C1_Witness ==
    \E c \in DOMAIN windows :
        /\ config.maxRequests >= 2
        /\ windows[c].k = config.maxRequests + 1
        /\ ~windows[c].last.allowed
        /\ windows[c].last.remaining = 0
        /\ IsSome(windows[c].prev)
        /\ Get(windows[c].prev).allowed
        /\ Get(windows[c].prev).remaining = 0

\* C2: a call for client id A leaves the store entry of every other client id
\* unchanged, and the call is counted from A's own count alone: it is allowed
\* exactly when A's own calls in its window, this one included, are within
\* the limit, whatever the other ids have used.
C2_DistinctIdsNeverShareBucket ==
    [][IsCheckStep =>
        LET a == Get(lastCall').clientId
            own == IF a \in DOMAIN windows
                      /\ now <= windows[a].start + config.windowSeconds * 1000
                   THEN windows[a].k ELSE 0
        IN  /\ \A b \in DOMAIN rateLimitStore \ {a} :
                  /\ b \in DOMAIN rateLimitStore'
                  /\ rateLimitStore'[b] = rateLimitStore[b]
            /\ rateLimitStore'[a].count = own + 1
            /\ Get(lastCall').result.allowed <=> (own + 1 <= config.maxRequests)
      ]_vars

\* client id a has been denied in a window that is still open, and the latest
\* call, by another id b, was allowed
C2_Witness ==
    /\ IsSome(lastCall)
    /\ Get(lastCall).result.allowed
    /\ \E a \in DOMAIN windows :
          /\ a # Get(lastCall).clientId
          /\ ~windows[a].last.allowed
          /\ windows[a].lastAt <= Get(lastCall).at
          /\ Get(lastCall).at <= windows[a].last.resetTime
          /\ a \in DOMAIN rateLimitStore
          /\ rateLimitStore[a].count = config.maxRequests + 1

\* C3: a call starts a fresh window for its client id (entry replaced by
\* count 1 and resetTime = now + windowSeconds*1000) exactly when no entry
\* exists for the id or now is strictly later than the stored resetTime; in
\* every other case, a call at exactly now = resetTime included, it is counted
\* in the existing window. So a client that was throttled is allowed again,
\* with count 1 and remaining = maxRequests - 1, on its first call after the
\* window has passed.
C3_FreshWindowIffExpired ==
    [][IsCheckStep =>
        LET c == Get(lastCall').clientId
            r == Get(lastCall').result
            known == c \in DOMAIN rateLimitStore
            fresh == rateLimitStore'[c] =
                        [count |-> 1,
                         resetTime |-> now + config.windowSeconds * 1000]
        IN  /\ fresh <=> (~known \/ now > rateLimitStore[c].resetTime)
            /\ ~fresh =>
                  rateLimitStore'[c] =
                      [count |-> rateLimitStore[c].count + 1,
                       resetTime |-> rateLimitStore[c].resetTime]
            /\ (/\ c \in DOMAIN windows
                /\ ~windows[c].last.allowed
                /\ now > windows[c].last.resetTime
                /\ config.maxRequests >= 1)
               => /\ r.allowed
                  /\ r.remaining = config.maxRequests - 1
                  /\ rateLimitStore'[c].count = 1
      ]_vars

\* a client id was called at exactly now = resetTime, was counted in the
\* existing window and denied there, and its next call, later than resetTime,
\* was allowed in a fresh window
C3_Witness ==
    \E c \in DOMAIN windows :
        LET w == windows[c] IN
        /\ IsSome(w.prev)
        /\ ~Get(w.prev).allowed
        /\ w.prevAt = Get(w.prev).resetTime
        /\ w.lastAt > Get(w.prev).resetTime
        /\ w.k = 1
        /\ w.last.allowed
        /\ w.last.remaining = config.maxRequests - 1
        /\ w.last.resetTime = w.lastAt + config.windowSeconds * 1000

----------------------------------------------------------------------------
(* Properties of validateOrigin *)

\* the origin a request declares: the Origin header, or the origin of the
\* Referer when Origin is absent or empty; None when it declares none
DeclaredOrigin(origin, referer) ==
    IF Truthy(origin) THEN origin
    ELSE IF Truthy(referer) THEN UrlOrigin(Get(referer))
    ELSE None

\* the request's Referer has to be parsed and is not a URL
RefererUnparsable(origin, referer) ==
    ~Truthy(origin) /\ Truthy(referer) /\ ~IsSome(UrlOrigin(Get(referer)))

\* the request declares exactly the origin of the configured site
DeclaresSiteOrigin(origin, referer, siteUrl) ==
    /\ IsSome(siteUrl)
    /\ Truthy(DeclaredOrigin(origin, referer))
    /\ DeclaredOrigin(origin, referer) = UrlOrigin(Get(siteUrl))

Production(e) == ~e.isDevelopment /\ ~e.isTest

\* C4: for every request whose origin (the Origin header, or the origin of
\* the Referer when Origin is absent) is exactly the configured site origin,
\* validateOrigin returns true in every environment mode.
C4_SiteOriginAcceptedInEveryMode ==
    (vo.result # "none" /\ DeclaresSiteOrigin(vo.origin, vo.referer, vo.siteUrl))
        => vo.result = "true"

\* outside production, a request without Origin whose Referer is a page of
\* the site (not a loopback address) has been accepted
C4_Witness ==
    /\ vo.result = "true"
    /\ vo.currentEnv.isTest
    /\ ~Truthy(vo.origin)
    /\ vo.referer = Some("https://EXAMPLE.COM:443/search?q=test#s")
    /\ vo.siteUrl = Some("https://example.com")

LoopbackOrigins ==
    {"http://localhost", "http://localhost:4321", "https://localhost:3000",
     "http://127.0.0.1", "http://127.0.0.1:8080", "http://[::1]",
     "http://[::1]:5173"}

\* C6: in development or test mode validateOrigin returns true for the
\* loopback origins http(s)://localhost, http(s)://127.0.0.1, http(s)://[::1],
\* each with an optional numeric port, and for a request with neither Origin
\* nor Referer; it returns false for every other origin that is not the site
\* origin, origins that only contain a loopback name included.
C6_RelaxedModeAcceptsLoopbackOnly ==
    (/\ vo.result # "none"
     /\ Relaxed(vo.currentEnv)
     /\ ~RefererUnparsable(vo.origin, vo.referer)) =>
        LET d == DeclaredOrigin(vo.origin, vo.referer) IN
        /\ vo.result \in {"true", "false"}
        /\ vo.result = "true" <=>
              \/ ~Truthy(d)
              \/ DeclaresSiteOrigin(vo.origin, vo.referer, vo.siteUrl)
              \/ Get(d) \in LoopbackOrigins

\* in development mode an origin that has a loopback name as a prefix has
\* been rejected
C6_Witness ==
    /\ vo.currentEnv.isDevelopment
    /\ vo.origin = Some("http://localhost.evil.com")
    /\ IsSome(vo.siteUrl)
    /\ vo.result = "false"

\* C7: when the Origin header is present and non-empty, two requests that
\* differ only in their Referer header get the same result.
C7_RefererNeverOverridesOrigin ==
    (vo.twinResult # "none" /\ Truthy(vo.origin)) => vo.result = vo.twinResult

\* a foreign Origin has been rejected both without a Referer and with a
\* Referer that validates on its own
C7_Witness ==
    /\ vo.twinResult = "false"
    /\ vo.result = "false"
    /\ vo.origin = Some("https://evil.com")
    /\ vo.referer = None
    /\ vo.twinReferer = Some("https://example.com/some/page")
    /\ vo.siteUrl = Some("https://example.com")
    /\ Production(vo.currentEnv)
    /\ ValidateOrigin(None, vo.twinReferer, vo.siteUrl, vo.currentEnv) = "true"

----------------------------------------------------------------------------
(* The environment read by the handler (src/lib/env.ts) *)

\* getEnv(key, defaultValue): import.meta.env first, then process.env; an
\* empty string counts as unset
GetEnv(metaEnvValue, processEnvValue, defaultValue) ==
    IF IsSome(metaEnvValue) /\ Get(metaEnvValue) # "" THEN metaEnvValue
    ELSE IF IsSome(processEnvValue) /\ Get(processEnvValue) # "" THEN processEnvValue
    ELSE defaultValue

\* mutant: without a value the mode is production
NodeEnv_DefaultProduction(d) ==
    Get(GetEnv(d.metaNodeEnv, d.processNodeEnv, Some("production")))

\* env.nodeEnv
NodeEnv(d) == Get(GetEnv(d.metaNodeEnv, d.processNodeEnv, Some("development")))

\* env.isDevelopment, env.isTest: the currentEnv of validateOrigin when the
\* handler calls it without an override
CurrentEnv(d) == [isDevelopment |-> NodeEnv(d) = "development",
                  isTest        |-> NodeEnv(d) = "test"]

----------------------------------------------------------------------------
(* JSON values, as request.json() resolves them.  A number is held in      *)
(* tenths (25 is 2.5); finite is FALSE for a literal beyond the double     *)
(* range (1e400), which JSON.parse reads as Infinity.  fields maps the own *)
(* properties of an object to their values.                                *)

NoFields == [k \in {} |-> 0]

JNull == [type |-> "null", num |-> 0, finite |-> TRUE, str |-> "", fields |-> NoFields]
JBool(b) == [type |-> "boolean", num |-> IF b THEN 1 ELSE 0, finite |-> TRUE,
             str |-> "", fields |-> NoFields]
JNumber(tenths) == [type |-> "number", num |-> tenths, finite |-> TRUE,
                    str |-> "", fields |-> NoFields]
JInfinity == [type |-> "number", num |-> 0, finite |-> FALSE,
              str |-> "", fields |-> NoFields]
JString(s) == [type |-> "string", num |-> 0, finite |-> TRUE, str |-> s,
               fields |-> NoFields]
JArray == [type |-> "array", num |-> 0, finite |-> TRUE, str |-> "",
           fields |-> NoFields]
JObject(f) == [type |-> "object", num |-> 0, finite |-> TRUE, str |-> "",
               fields |-> f]

\* body.key in `const { query, limit = 10 } = body`: None is undefined.  Only
\* objects of the inputs have these properties; strings, numbers, booleans
\* and arrays have none of that name.
Property(v, key) ==
    IF v.type = "object" /\ key \in DOMAIN v.fields THEN Some(v.fields[key])
    ELSE None

\* typeof x === 'string', for x possibly undefined
IsStringValue(x) == IsSome(x) /\ Get(x).type = "string"

\* !x : undefined, null, false, 0 and "" are falsy
Falsy(x) ==
    \/ ~IsSome(x)
    \/ Get(x).type = "null"
    \/ Get(x).type = "boolean" /\ Get(x).num = 0
    \/ Get(x).type = "number" /\ Get(x).finite /\ Get(x).num = 0
    \/ Get(x).type = "string" /\ Get(x).str = ""

\* Number.parseInt(s, 10): leading whitespace skipped, an optional sign, then
\* the longest run of decimal digits.  None stands for the results that
\* Number.isFinite rejects: NaN (no digit) and Infinity (the digits denote a
\* number beyond the double range, 1.797...e308).
LeadingDigits(s) ==
    LET stop == {i \in 1..Len(s) : CharAt(s, i) \notin Digits}
    IN  IF stop = {} THEN s
        ELSE SubSeq(s, 1, (CHOOSE i \in stop : \A j \in stop : i <= j) - 1)

RECURSIVE StripZeros(_)
StripZeros(ds) ==
    IF Len(ds) > 1 /\ CharAt(ds, 1) = "0" THEN StripZeros(SubSeq(ds, 2, Len(ds)))
    ELSE ds

\* the digits denote a number that reads as Infinity: more than 309
\* significant digits, or 309 of them from 1798... upwards
OverflowsDouble(ds) ==
    LET sig == StripZeros(ds) IN
    \/ Len(sig) > 309
    \/ Len(sig) = 309 /\ ParseDigits(SubSeq(sig, 1, 4), 0) >= 1798

ParseInt(s) ==
    LET t == TrimStart(s)
        signed == Len(t) > 0 /\ CharAt(t, 1) \in {"+", "-"}
        ds == LeadingDigits(IF signed THEN SubSeq(t, 2, Len(t)) ELSE t)
    IN  IF ds = "" \/ OverflowsDouble(ds) THEN None
        ELSE IF signed /\ CharAt(t, 1) = "-" THEN Some(0 - ParseDigits(ds, 0))
        ELSE Some(ParseDigits(ds, 0))

MinResults == 1
MaxResults == 20
DefaultLimit == 10

\* numericLimit: the floor of a finite number, the parsed integer of a
\* string, 10 otherwise (limit = 10 by default when the property is undefined)
NumericLimit(limit) ==
    LET l == IF IsSome(limit) THEN Get(limit) ELSE JNumber(DefaultLimit * 10) IN
    IF l.type = "number" /\ l.finite THEN l.num \div 10
    ELSE IF l.type = "string" /\ IsSome(ParseInt(l.str)) THEN Get(ParseInt(l.str))
    ELSE DefaultLimit

\* mutant: the lower bound is not applied
SanitizedLimit_UpperOnly(limit) == Min(NumericLimit(limit), MaxResults)

\* Math.min(Math.max(1, numericLimit), 20)
SanitizedLimit(limit) == Min(Max(MinResults, NumericLimit(limit)), MaxResults)

MaxQueryLength == 500

----------------------------------------------------------------------------
(* The POST handler of /api/search.json *)

\* { ...a, ...b }
Spread(a, b) ==
    [k \in DOMAIN a \cup DOMAIN b |-> IF k \in DOMAIN b THEN b[k] ELSE a[k]]

ContentTypeHeader == "Content-Type" :> "application/json"

SecurityHeaders ==
    ("X-Content-Type-Options" :> "nosniff") @@
    ("X-Frame-Options" :> "DENY") @@
    ("X-XSS-Protection" :> "1; mode=block") @@
    ("Content-Security-Policy" :> "default-src 'none'; frame-ancestors 'none'")

\* mutant: the reset time is rounded up to the next whole second
CreateRateLimitHeaders_RoundsUp(result) ==
    ("X-RateLimit-Limit" :> ToString(result.limit)) @@
    ("X-RateLimit-Remaining" :> ToString(result.remaining)) @@
    ("X-RateLimit-Reset" :> ToString((result.resetTime + 999) \div 1000))

\* createRateLimitHeaders(result)
CreateRateLimitHeaders(result) ==
    ("X-RateLimit-Limit" :> ToString(result.limit)) @@
    ("X-RateLimit-Remaining" :> ToString(result.remaining)) @@
    ("X-RateLimit-Reset" :> ToString(result.resetTime \div 1000))

\* rateLimitHeaders of the handler
RateLimitHeaders(result) ==
    Spread(Spread(ContentTypeHeader, SecurityHeaders), CreateRateLimitHeaders(result))

\* Math.ceil(a / b) for b > 0
Ceil(a, b) == 0 - ((0 - a) \div b)

\* the configuration the handler passes to checkRateLimit
PostMaxRequests == 20
PostWindowSeconds == 60
PostConfig == [maxRequests |-> PostMaxRequests, windowSeconds |-> PostWindowSeconds,
               trustedProxyHeader |-> Some("x-forwarded-for")]

\* new Response(JSON.stringify(payload), { status, headers })
Response(status, headers, error, message) ==
    [status |-> status, headers |-> headers, error |-> error, message |-> message,
     retryAfter |-> None, count |-> None, query |-> None]

ForbiddenResponse ==
    Response(403, Spread(ContentTypeHeader, SecurityHeaders),
             Some("Forbidden"), Some("Invalid request origin"))

\* mutant: the 429 response is built from the plain headers, as the 403 is
TooManyResponse_BareHeaders(result, headers, tBody, tHeader) ==
    [Response(429,
              Spread(Spread(ContentTypeHeader, SecurityHeaders),
                     "Retry-After" :> ToString(Ceil(result.resetTime - tHeader, 1000))),
              Some("Too many requests"),
              Some("Rate limit exceeded. Please try again later."))
        EXCEPT !.retryAfter = Some(Ceil(result.resetTime - tBody, 1000))]

\* tBody and tHeader are the two later readings of Date.now()
TooManyResponse(result, headers, tBody, tHeader) ==
    [Response(429,
              Spread(headers,
                     "Retry-After" :> ToString(Ceil(result.resetTime - tHeader, 1000))),
              Some("Too many requests"),
              Some("Rate limit exceeded. Please try again later."))
        EXCEPT !.retryAfter = Some(Ceil(result.resetTime - tBody, 1000))]

InvalidJsonResponse(headers) ==
    Response(400, headers, Some("Invalid JSON"),
             Some("Request body must be valid JSON."))

QueryRequiredResponse(headers) ==
    Response(400, headers, Some("Query parameter is required"), None)

QueryTooLongResponse(headers) ==
    Response(400, headers, Some("Query too long"),
             Some("Query must be less than 500 characters"))

\* mutant: the message of the caught error is sent to the client
SearchFailedResponse_EchoError(headers, error) ==
    Response(500, headers, Some("Search failed"), Some(error))

\* the response of the catch block; error is the caught error
SearchFailedResponse(headers, error) ==
    Response(500, headers, Some("Search failed"),
             Some("An error occurred while processing your search request."))

OkResponse(headers, query, count) ==
    [Response(200, headers, None, None)
        EXCEPT !.count = Some(count), !.query = Some(query)]

\* what the handler does with the parsed body, up to its first return or to
\* the call of search: the destructuring of null throws a TypeError inside
\* the try block, which the catch turns into the 500 response
BodyVerdict(body) ==
    LET query == Property(body, "query") IN
    IF body.type = "null" THEN "TypeError"
    ELSE IF Falsy(query) \/ ~IsStringValue(query) THEN "QueryRequired"
    ELSE IF Len(Get(query).str) > MaxQueryLength THEN "QueryTooLong"
    ELSE "Valid"

\* the arguments of search({ client, query, limit, embeddingOptions })
SearchArgs(body) ==
    [query    |-> Get(Property(body, "query")).str,
     limit    |-> SanitizedLimit(Property(body, "limit")),
     provider |-> "local"]

----------------------------------------------------------------------------
(* The endpoint as a state machine: one invocation of the handler is       *)
(* followed through its three segments (up to the await of request.json(), *)
(* up to the await of search(), up to the response), while the clock       *)
(* advances and the cleanup timer fires; the requests handled before it    *)
(* have left their counts in the store.                                    *)

RECURSIVE Repeat(_, _)
Repeat(s, n) ==
    IF n = 0 THEN ""
    ELSE LET half == Repeat(s, n \div 2)
         IN  IF n % 2 = 0 THEN half \o half ELSE half \o half \o s

LongestQuery == Repeat("q", MaxQueryLength)

\* how request.json() settles: rejected, or resolved with a JSON value
JsonValues ==
    {JNull, JNumber(50), JArray, JString("hello"), JBool(TRUE),
     JObject(NoFields),
     JObject("limit" :> JNumber(50))} \cup
    {JObject("query" :> q) :
        q \in {JNull, JNumber(1230), JArray, JString(""), JString("h"),
               JString(LongestQuery), JString(LongestQuery \o "q")}} \cup
    {JObject(("query" :> JString("hello")) @@ ("limit" :> l)) :
        l \in {JNumber(25), JNumber(1000), JInfinity, JNull, JString(" 7abc"),
               JNumber(0), JNumber(0 - 30), JNumber(0 - 5), JNumber(9),
               JNumber(200), JNumber(205), JBool(TRUE), JArray,
               JString(""), JString("abc"), JString("-4"), JString("+15"),
               JString("21"), JString("12.9"), JString("0x1F"),
               JString(Repeat("9", 400))}}

\* a request of the site's own pages, one without a proxy header and with a
\* Referer that is not read, one identified by its Referer, one whose Referer
\* does not parse, one of a foreign page, one without Origin and Referer
PostRequests ==
    {[origin |-> Some("https://example.com"), referer |-> None,
      xff |-> Some("1.2.3.4"), cf |-> None, realIp |-> None],
     [origin |-> Some("https://example.com"), referer |-> Some("not-a-valid-url"),
      xff |-> None, cf |-> None, realIp |-> None],
     [origin |-> None, referer |-> Some("https://example.com/some/page"),
      xff |-> Some("1.2.3.4"), cf |-> None, realIp |-> None],
     [origin |-> None, referer |-> Some("not-a-valid-url"),
      xff |-> Some("1.2.3.4"), cf |-> None, realIp |-> None],
     [origin |-> Some("https://evil.com"), referer |-> None,
      xff |-> Some("1.2.3.4"), cf |-> None, realIp |-> None],
     [origin |-> None, referer |-> None,
      xff |-> Some("1.2.3.4"), cf |-> None, realIp |-> None]}

\* the client id of the requests that reached the limiter earlier
EarlierClient == "1.2.3.4"

PostTickSteps == {60000}
\* how far Date.now() may advance between two readings in one segment
SyncClockSteps == {0, 1}
\* how search() settles: with results.length of a successful search, or
\* with what the collaborator may reject with
SearchOutcomes ==
    {[ok |-> TRUE, count |-> n, error |-> None] : n \in {2}} \cup
    {[ok |-> FALSE, count |-> 0, error |-> Some(e)] :
        e \in {"Database connection failed",
               "SQLITE_ERROR: no such table: articles"}}
\* what the destructuring of null throws
DestructureError == "TypeError: Cannot destructure property 'query' of 'body' as it is null."

\* the limiter after n requests of client id c, all made at time t, under
\* the handler's configuration: one entry with count n in the window opened
\* at t
EarlierEntry(n, t) == [count |-> n, resetTime |-> t + PostWindowSeconds * 1000]

AfterCalls(n, c, t) ==
    IF n = 0 THEN [store |-> EmptyStore, windows |-> EmptyStore, lastCall |-> None]
    ELSE [store    |-> c :> EarlierEntry(n, t),
          windows  |-> c :> [start  |-> t,
                             k      |-> n,
                             last   |-> ResultOf(EarlierEntry(n, t), PostConfig),
                             lastAt |-> t,
                             prev   |-> IF n = 1 THEN None
                                        ELSE Some(ResultOf(EarlierEntry(n - 1, t),
                                                           PostConfig)),
                             prevAt |-> IF n = 1 THEN 0 ELSE t],
          lastCall |-> Some([clientId |-> c, at |-> t,
                             result |-> ResultOf(EarlierEntry(n, t), PostConfig)])]

\* the traffic before the observation starts: none, or as much as the limit
\* allows, made EarlierCallAge milliseconds ago
EarlierCallAge == 999

PostInit ==
    /\ now \in StartTimes
    /\ sweepDue \in {now + d : d \in SweepOffsets}
    /\ config = PostConfig
    /\ \E n \in {0, PostMaxRequests - 1, PostMaxRequests} :
          LET earlier == AfterCalls(n, EarlierClient, now - EarlierCallAge) IN
          /\ rateLimitStore = earlier.store
          /\ windows = earlier.windows
          /\ lastCall = earlier.lastCall
    /\ nCalls = 0
    /\ ticks = 0
    /\ vo = VoIdle
    \* NODE_ENV unset (development), production, test
    /\ deploy \in {[metaNodeEnv |-> None, processNodeEnv |-> None,
                     site |-> Some("https://example.com")],
                    [metaNodeEnv |-> Some(""), processNodeEnv |-> Some("production"),
                     site |-> Some("https://example.com")],
                    [metaNodeEnv |-> Some("test"), processNodeEnv |-> Some("production"),
                     site |-> Some("https://example.com")]}
    /\ post = PostIdle
    /\ ProbesIdle

\* POST, first segment: validateOrigin, checkRateLimit, and the call of
\* request.json().  An error thrown by validateOrigin leaves the handler:
\* nothing catches it and no response is built.  rnd is what Math.random()
\* gives getClientId; dBody and dHeader are the advances of Date.now() up to
\* its two readings for the 429 response.
PostStart(request) ==
    /\ post.pc = "idle"
    /\ LET verdict == ValidateOrigin(request.origin, request.referer, deploy.site,
                                     CurrentEnv(deploy))
           begun == [PostIdle EXCEPT !.pc = "done", !.origin = verdict,
                                     !.stages = <<"origin">>]
       IN  IF verdict = "TypeError"
           THEN /\ post' = [begun EXCEPT !.threw = TRUE]
                /\ UNCHANGED limiterVars
           ELSE IF verdict = "false"
           THEN /\ post' = [begun EXCEPT !.response = Some(ForbiddenResponse)]
                /\ UNCHANGED limiterVars
           ELSE \E rnd \in RandomSuffixes :
                LET r == CheckRateLimit(rateLimitStore,
                                        [xff |-> request.xff, cf |-> request.cf,
                                         realIp |-> request.realIp],
                                        PostConfig, now, rnd)
                    headers == RateLimitHeaders(r.result)
                    checked == [begun EXCEPT !.rate = Some(r.result),
                                             !.stages = <<"origin", "rateLimit">>,
                                             !.headers = headers]
                IN  /\ rateLimitStore' = r.store
                    /\ lastCall' = Some([clientId |-> r.clientId, at |-> now,
                                         result |-> r.result])
                    /\ windows' = ObserveWindow(windows, r.clientId, now, PostConfig,
                                                r.result)
                    /\ nCalls' = nCalls + 1
                    /\ IF r.result.allowed
                       THEN /\ post' = [checked EXCEPT !.pc = "parsing"]
                            /\ now' = now
                       ELSE \E dBody \in SyncClockSteps, dHeader \in SyncClockSteps :
                            /\ post' = [checked EXCEPT !.response =
                                           Some(TooManyResponse(r.result, headers,
                                                now + dBody, now + dBody + dHeader))]
                            /\ now' = now + dBody + dHeader
                    /\ UNCHANGED <<sweepDue, config, ticks>>
    /\ UNCHANGED <<vo, deploy, probeVars>>

\* POST, second segment: request.json() has settled; the query and the limit
\* are validated, getTursoClient() is called (clientError: the error it
\* throws, None when it returns) and search() is called.  What is thrown
\* inside the try block is logged and answered by the catch block.
PostParsed(outcome, clientError) ==
    /\ post.pc = "parsing"
    /\ LET ran == [post EXCEPT !.json = Some(outcome),
                               !.stages = Append(post.stages, "body")]
           verdict == BodyVerdict(outcome.value)
           respond(resp) == [ran EXCEPT !.pc = "done", !.response = Some(resp)]
           caught(error) ==
               [respond(SearchFailedResponse(post.headers, error))
                   EXCEPT !.logged = Some(error)]
       IN  post' =
             IF ~outcome.ok THEN respond(InvalidJsonResponse(post.headers))
             ELSE IF verdict = "TypeError"
             THEN caught(DestructureError)
             ELSE IF verdict = "QueryRequired"
             THEN respond(QueryRequiredResponse(post.headers))
             ELSE IF verdict = "QueryTooLong"
             THEN respond(QueryTooLongResponse(post.headers))
             ELSE IF IsSome(clientError)
             THEN [caught(Get(clientError))
                      EXCEPT !.stages = Append(ran.stages, "search"),
                             !.searched = "failed"]
             ELSE [ran EXCEPT !.pc = "searching",
                              !.stages = Append(ran.stages, "search"),
                              !.searchCalls = post.searchCalls + 1,
                              !.searchArgs = Some(SearchArgs(outcome.value))]
    /\ UNCHANGED <<limiterVars, vo, deploy, probeVars>>

\* POST, third segment: search() has settled, with count results or with an
\* error
PostSearched(settled) ==
    /\ post.pc = "searching"
    /\ post' =
         IF settled.ok
         THEN [post EXCEPT
                  !.pc = "done",
                  !.searched = "ok",
                  !.response = Some(OkResponse(post.headers,
                                               Get(post.searchArgs).query,
                                               settled.count))]
         ELSE [post EXCEPT
                  !.pc = "done",
                  !.searched = "failed",
                  !.logged = settled.error,
                  !.response = Some(SearchFailedResponse(post.headers,
                                                         Get(settled.error)))]
    /\ UNCHANGED <<limiterVars, vo, deploy, probeVars>>

PostNext ==
    \/ \E request \in PostRequests : PostStart(request)
    \* request.json() rejects or resolves; getTursoClient() throws or
    \* returns the client (None)
    \/ \E outcome \in {[ok |-> FALSE, value |-> JNull]} \cup
                        {[ok |-> TRUE, value |-> v] : v \in JsonValues},
          clientError \in {None, Some("URL_INVALID: The URL is not in a valid format")} :
          PostParsed(outcome, clientError)
    \/ \E settled \in SearchOutcomes : PostSearched(settled)
    \/ \E d \in PostTickSteps : Tick(d)
    \/ Sweep

SpecPost == PostInit /\ [][PostNext]_vars

----------------------------------------------------------------------------
(* One server process handling several POST requests at once.  JavaScript  *)
(* runs each handler to its next await without interruption: the segment   *)
(* up to request.json() (validateOrigin, checkRateLimit, the 403 and 429   *)
(* responses) is one step, and between the segments of one handler the     *)
(* segments of the others, the clock and the cleanup timer may run.        *)

MaxHandlers == 2       \* invocations in one behaviour

ServerJsonOutcomes ==
    {[ok |-> FALSE, value |-> JNull],
     [ok |-> TRUE, value |-> JObject("query" :> JString("hello"))]}

ServerSearchOutcomes ==
    {[ok |-> TRUE, count |-> 2, error |-> None],
     [ok |-> FALSE, count |-> 0, error |-> Some("Database connection failed")]}


\* an invocation that has not got past its first segment
HandlerIdle == [pc |-> "idle", clientId |-> "", at |-> 0, rate |-> None,
                headers |-> NoHeaders, body |-> JNull, response |-> None]

ServerInit ==
    /\ now \in StartTimes
    /\ sweepDue \in {now + d : d \in SweepOffsets}
    /\ config = PostConfig
    \* the earlier traffic of EarlierClient: one request short of the limit,
    \* or the limit, made in the millisecond the observation starts or
    \* EarlierCallAge milliseconds before it
    /\ \E n \in {PostMaxRequests - 1, PostMaxRequests}, age \in {0, EarlierCallAge} :
          LET earlier == AfterCalls(n, EarlierClient, now - age) IN
          /\ rateLimitStore = earlier.store
          /\ windows = earlier.windows
          /\ lastCall = earlier.lastCall
          /\ server = [ServerIdle EXCEPT !.earlier = n, !.earlierAt = now - age]
    /\ nCalls = 0
    /\ ticks = 0
    /\ vo = VoIdle
    \* production
    /\ deploy = [metaNodeEnv |-> Some(""), processNodeEnv |-> Some("production"),
                 site |-> Some("https://example.com")]
    /\ post = PostIdle
    /\ pair = PairIdle
    /\ hdr = HdrIdle
    /\ shadow = ShadowIdle
    /\ grants = NoGrants

\* a request arrives and its handler runs up to the await of request.json()
ServerStart(request) ==
    /\ Len(server.handlers) < MaxHandlers
    /\ LET verdict == ValidateOrigin(request.origin, request.referer, deploy.site,
                                     CurrentEnv(deploy))
           arrived(h) == [server EXCEPT !.handlers = Append(@, h)]
       IN  IF verdict = "TypeError"
           THEN /\ server' = arrived([HandlerIdle EXCEPT !.pc = "threw"])
                /\ UNCHANGED limiterVars
           ELSE IF verdict = "false"
           THEN /\ server' = arrived([HandlerIdle EXCEPT
                                         !.pc = "done",
                                         !.response = Some(ForbiddenResponse)])
                /\ UNCHANGED limiterVars
           ELSE \E rnd \in RandomSuffixes :
                LET r == CheckRateLimit(rateLimitStore,
                                        [xff |-> request.xff, cf |-> request.cf,
                                         realIp |-> request.realIp],
                                        PostConfig, now, rnd)
                    headers == RateLimitHeaders(r.result)
                    checked == [HandlerIdle EXCEPT !.clientId = r.clientId,
                                                   !.at = now,
                                                   !.rate = Some(r.result),
                                                   !.headers = headers]
                IN  /\ rateLimitStore' = r.store
                    /\ lastCall' = Some([clientId |-> r.clientId, at |-> now,
                                         result |-> r.result])
                    /\ windows' = ObserveWindow(windows, r.clientId, now, PostConfig,
                                                r.result)
                    /\ nCalls' = nCalls + 1
                    /\ IF r.result.allowed
                       THEN /\ server' = arrived([checked EXCEPT !.pc = "parsing"])
                            /\ now' = now
                       ELSE \E dBody \in SyncClockSteps, dHeader \in SyncClockSteps :
                            /\ server' = arrived([checked EXCEPT
                                           !.pc = "done",
                                           !.response =
                                              Some(TooManyResponse(r.result, headers,
                                                   now + dBody, now + dBody + dHeader))])
                            /\ now' = now + dBody + dHeader
                    /\ UNCHANGED <<sweepDue, config, ticks>>
    /\ UNCHANGED <<vo, postVars, pair, hdr, shadow, grants>>

\* request.json() of handler i has settled: the segment up to the await of
\* search(); getTursoClient() returns the client
ServerParsed(i, outcome) ==
    /\ i \in 1..Len(server.handlers)
    /\ server.handlers[i].pc = "parsing"
    /\ LET h == server.handlers[i]
           verdict == BodyVerdict(outcome.value)
           respond(resp) == [h EXCEPT !.pc = "done", !.response = Some(resp)]
           after ==
             IF ~outcome.ok THEN respond(InvalidJsonResponse(h.headers))
             ELSE IF verdict = "TypeError"
             THEN respond(SearchFailedResponse(h.headers, DestructureError))
             ELSE IF verdict = "QueryRequired"
             THEN respond(QueryRequiredResponse(h.headers))
             ELSE IF verdict = "QueryTooLong"
             THEN respond(QueryTooLongResponse(h.headers))
             ELSE [h EXCEPT !.pc = "searching", !.body = outcome.value]
       IN  server' = [server EXCEPT !.handlers[i] = after]
    /\ UNCHANGED <<limiterVars, vo, postVars, pair, hdr, shadow, grants>>

\* search() of handler i has settled: the segment up to the response
ServerSearched(i, settled) ==
    /\ i \in 1..Len(server.handlers)
    /\ server.handlers[i].pc = "searching"
    /\ LET h == server.handlers[i]
           resp == IF settled.ok
                   THEN OkResponse(h.headers, SearchArgs(h.body).query, settled.count)
                   ELSE SearchFailedResponse(h.headers, Get(settled.error))
       IN  server' = [server EXCEPT
                         !.handlers[i] = [h EXCEPT !.pc = "done",
                                                   !.response = Some(resp)]]
    /\ UNCHANGED <<limiterVars, vo, postVars, pair, hdr, shadow, grants>>

ServerNext ==
    \* a request of the site's own pages and one of a foreign page, both
    \* from the address of the earlier traffic
    \/ \E request \in {[origin |-> Some(o), referer |-> None,
                          xff |-> Some(EarlierClient), cf |-> None,
                          realIp |-> None] :
                            o \in {"https://example.com", "https://evil.com"}} :
          ServerStart(request)
    \/ \E i \in 1..MaxHandlers, outcome \in ServerJsonOutcomes :
          ServerParsed(i, outcome)
    \/ \E i \in 1..MaxHandlers, settled \in ServerSearchOutcomes :
          ServerSearched(i, settled)
    \/ \E d \in PostTickSteps : Tick(d)
    \/ Sweep

SpecServer == ServerInit /\ [][ServerNext]_vars

----------------------------------------------------------------------------
(* The handler under the ways a deployment can set NODE_ENV, for a request *)
(* whose Origin and Referer headers are known: vo holds the two headers.   *)

ModeInit ==
    /\ now \in StartTimes
    /\ sweepDue \in {now + d : d \in SweepOffsets}
    /\ config = PostConfig
    /\ rateLimitStore = EmptyStore
    /\ windows = EmptyStore
    /\ lastCall = None
    /\ nCalls = 0
    /\ ticks = 0
    \* no Origin and no Referer, an empty Origin, the loopback origins, the
    \* site's own origin, a foreign origin, a loopback look-alike
    /\ \E o \in {None, Some(""), Some("http://localhost:4321"),
                 Some("http://127.0.0.1"), Some("http://[::1]:5173"),
                 Some("https://example.com"), Some("https://evil.com"),
                 Some("http://localhost.evil.com")} :
          vo = [VoIdle EXCEPT !.origin = o]
    \* NODE_ENV in import.meta.env and in process.env: unset, empty, or a value
    /\ deploy \in {[metaNodeEnv |-> m, processNodeEnv |-> p,
                     site |-> Some("https://example.com")] :
                       m \in {None, Some(""), Some("test"), Some("production")},
                       p \in {None, Some(""), Some("development"), Some("staging")}}
    /\ post = PostIdle
    /\ ProbesIdle

ModeNext ==
    \* the handler is invoked for the request with the headers held in vo
    \/ PostStart([origin |-> vo.origin, referer |-> vo.referer,
                  xff |-> Some(EarlierClient), cf |-> None, realIp |-> None])
    \/ \E outcome \in ServerJsonOutcomes : PostParsed(outcome, None)
    \/ \E settled \in ServerSearchOutcomes : PostSearched(settled)

SpecMode == ModeInit /\ [][ModeNext]_vars

----------------------------------------------------------------------------
(* Properties of the POST handler *)

StageOrder == <<"origin", "rateLimit", "body", "search">>

RateLimitHeaderNames == {"X-RateLimit-Limit", "X-RateLimit-Remaining",
                         "X-RateLimit-Reset"}

Responded == IsSome(post.response)
Status == Get(post.response).status

\* the body is JSON with a query that is a string of 1 to 500 characters
HasValidQuery(outcome) ==
    /\ outcome.ok
    /\ outcome.value.type = "object"
    /\ "query" \in DOMAIN outcome.value.fields
    /\ outcome.value.fields["query"].type = "string"
    /\ Len(outcome.value.fields["query"].str) \in 1..500

\* the body is JSON without a query, or with a query that is not a string
LacksStringQuery(outcome) ==
    /\ outcome.ok
    /\ \/ outcome.value.type # "object"
       \/ "query" \notin DOMAIN outcome.value.fields
       \/ outcome.value.fields["query"].type # "string"

OriginFailed == post.origin # "true"
RateFailed == IsSome(post.rate) /\ ~Get(post.rate).allowed
BodyFailed == IsSome(post.json) /\ ~HasValidQuery(Get(post.json))
SearchFailed == post.searched = "failed"

\* C8: the stages run in the order origin validation, rate-limit check, body
\* parsing and query validation, search; the first stage that fails decides
\* the status (403, 429, 400, 500 respectively) and no later stage runs;
\* search is called at most once and only after origin validation, the rate
\* limit and body validation have all passed.
C8_FirstFailingStageDecides ==
    /\ \E n \in 0..4 : post.stages = SubSeq(StageOrder, 1, n)
    /\ post.searchCalls <= 1
    /\ post.searchCalls = 1 =>
          /\ post.origin = "true"
          /\ IsSome(post.rate) /\ Get(post.rate).allowed
          /\ IsSome(post.json) /\ HasValidQuery(Get(post.json))
    /\ post.pc = "done" =>
          LET ran == Len(post.stages) IN
          /\ Responded
          /\ IF OriginFailed THEN Status = 403 /\ ran = 1
             ELSE IF RateFailed THEN Status = 429 /\ ran = 2
             ELSE IF BodyFailed THEN Status = 400 /\ ran = 3
             ELSE IF SearchFailed THEN Status = 500 /\ ran = 4
             ELSE Status = 200 /\ ran = 4

\* C9 as stated: every response of the handler, whatever its status, carries
\* the three X-RateLimit headers.
C9_EveryResponseCarriesRateLimitHeaders ==
    Responded => RateLimitHeaderNames \subseteq DOMAIN Get(post.response).headers

\* C9 as amended: every response returned after the rate-limit check (200,
\* 400, 429 or 500) carries the three headers X-RateLimit-Limit,
\* X-RateLimit-Remaining and X-RateLimit-Reset; the 403 response, returned
\* before the check, carries none of them.
C9_ResponsesAfterCheckCarryRateLimitHeaders ==
    Responded =>
        LET names == DOMAIN Get(post.response).headers IN
        /\ Status \in {200, 400, 403, 429, 500}
        /\ Status # 403 => RateLimitHeaderNames \subseteq names
        /\ Status = 403 => RateLimitHeaderNames \cap names = {}

\* a request over the limit has been answered 429 with the three headers
C9_Witness ==
    /\ post.pc = "done"
    /\ Responded
    /\ Status = 429
    /\ RateLimitHeaderNames \subseteq DOMAIN Get(post.response).headers
    /\ Get(post.response).headers["X-RateLimit-Remaining"] = "0"

\* C10: for a POST that passed origin validation and the rate limit, a body
\* that is not valid JSON, or is JSON of any shape without a query, or has a
\* query that is not a string, is empty or is longer than 500 characters is
\* answered 400 without a call of search; a query of 1 to 500 characters is
\* accepted; a missing or non-string query has error 'Query parameter is
\* required'.
C10_InvalidBodyIs400 ==
    IsSome(post.json) =>
        LET outcome == Get(post.json) IN
        IF HasValidQuery(outcome)
        THEN /\ "search" \in {post.stages[i] : i \in DOMAIN post.stages}
             /\ Responded => Status # 400
        ELSE /\ Responded
             /\ Status = 400
             /\ post.searchCalls = 0
             /\ LacksStringQuery(outcome) =>
                   Get(post.response).error = Some("Query parameter is required")

\* the body of a response, without its status and headers
BodyOf(resp) == [error |-> resp.error, message |-> resp.message,
                 retryAfter |-> resp.retryAfter, count |-> resp.count,
                 query |-> resp.query]

GenericFailureBody ==
    [error |-> Some("Search failed"),
     message |-> Some("An error occurred while processing your search request."),
     retryAfter |-> None, count |-> None, query |-> None]

----------------------------------------------------------------------------
(* Two requests with X-Forwarded-For headers, checked one after the other  *)
(* on an empty store: the headers are drawn in the initial state, the      *)
(* clock may advance and the cleanup timer may fire in between.            *)

ForwardedValues ==
    {"1.2.3.4", " 1.2.3.4 , 10.0.0.1", "1.2.3.4,5.6.7.8", "5.6.7.8, 1.2.3.4",
     "invalid-ip-address", "invalid-ip-address, 1.2.3.4", "::1 , 1.2.3.4", ""}

PairConfigs ==
    {[maxRequests |-> 2, windowSeconds |-> 1,
      trustedProxyHeader |-> Some("x-forwarded-for")]}

PairInit ==
    /\ LimiterInit(PairConfigs)
    /\ vo = VoIdle
    /\ PostAbsent
    /\ hdr = HdrIdle
    /\ server = ServerIdle
    /\ shadow = ShadowIdle
    /\ grants = NoGrants
    /\ pair \in {[PairIdle EXCEPT !.first = Some(a), !.second = Some(b)] :
                    a \in ForwardedValues, b \in ForwardedValues}

\* checkRateLimit for the request whose X-Forwarded-For header is h
PairCheck(h, rnd) ==
    LET r == CheckRateLimit(rateLimitStore,
                            [xff |-> h, cf |-> None, realIp |-> None],
                            config, now, rnd)
    IN  /\ rateLimitStore' = r.store
        /\ lastCall' = Some([clientId |-> r.clientId, at |-> now,
                             result |-> r.result])
        /\ windows' = ObserveWindow(windows, r.clientId, now, config, r.result)
        /\ nCalls' = nCalls + 1
        /\ UNCHANGED <<now, sweepDue, config, ticks, vo, postVars, hdr, server, shadow, grants>>

\* the first request of the pair is checked
PairFirst(rnd) ==
    /\ pair.stage = "none"
    /\ PairCheck(pair.first, rnd)
    /\ pair' = [pair EXCEPT !.stage = "one",
                            !.id1 = Get(lastCall').clientId,
                            !.count1 = rateLimitStore'[Get(lastCall').clientId].count,
                            !.reset1 = Get(lastCall').result.resetTime]

\* the second request of the pair is checked
PairSecond(rnd) ==
    /\ pair.stage = "one"
    /\ PairCheck(pair.second, rnd)
    /\ pair' = [pair EXCEPT !.stage = "two",
                            !.id2 = Get(lastCall').clientId,
                            !.count2 = rateLimitStore'[Get(lastCall').clientId].count,
                            !.at2 = now]

PairNext ==
    \/ \E rnd \in RandomSuffixes : PairFirst(rnd)
    \/ \E rnd \in RandomSuffixes : PairSecond(rnd)
    \/ \E d \in LimiterTickSteps : Tick(d)
    \/ Sweep

SpecPair == PairInit /\ [][PairNext]_vars

----------------------------------------------------------------------------
(* Two requests with all three proxy headers, under each choice of the     *)
(* trusted header; pair.first and pair.second hold the two requests.       *)

TrustRequests ==
    {[xff |-> x, cf |-> c, realIp |-> r] :
        x \in {None, Some("1.2.3.4"), Some("invalid-ip-address")},
        c \in {None, Some("1.2.3.4"), Some("5.6.7.8")},
        r \in {None, Some("5.6.7.8")}}

TrustInit ==
    /\ LimiterInit({[maxRequests |-> 2, windowSeconds |-> 1,
                      trustedProxyHeader |-> h] :
                        h \in {None, Some("cf-connecting-ip"), Some("x-real-ip"),
                               Some("x-forwarded-for")}})
    /\ vo = VoIdle
    /\ PostAbsent
    /\ hdr = HdrIdle
    /\ server = ServerIdle
    /\ shadow = ShadowIdle
    /\ grants = NoGrants
    /\ pair \in {[PairIdle EXCEPT !.first = Some(a), !.second = Some(b)] :
                    a \in TrustRequests, b \in TrustRequests}

\* checkRateLimit(request, config)
TrustCheck(request, rnd) ==
    LET r == CheckRateLimit(rateLimitStore, request, config, now, rnd)
    IN  /\ rateLimitStore' = r.store
        /\ lastCall' = Some([clientId |-> r.clientId, at |-> now,
                             result |-> r.result])
        /\ windows' = ObserveWindow(windows, r.clientId, now, config, r.result)
        /\ nCalls' = nCalls + 1
        /\ UNCHANGED <<now, sweepDue, config, ticks, vo, postVars, hdr, server,
                       shadow, grants>>

\* the first request of the pair is checked
TrustFirst(rnd) ==
    /\ pair.stage = "none"
    /\ TrustCheck(Get(pair.first), rnd)
    /\ pair' = [pair EXCEPT !.stage = "one",
                            !.id1 = Get(lastCall').clientId,
                            !.count1 = rateLimitStore'[Get(lastCall').clientId].count,
                            !.reset1 = Get(lastCall').result.resetTime]

\* the second request of the pair is checked
TrustSecond(rnd) ==
    /\ pair.stage = "one"
    /\ TrustCheck(Get(pair.second), rnd)
    /\ pair' = [pair EXCEPT !.stage = "two",
                            !.id2 = Get(lastCall').clientId,
                            !.count2 = rateLimitStore'[Get(lastCall').clientId].count,
                            !.at2 = now]

TrustNext ==
    \/ \E rnd \in RandomSuffixes : TrustFirst(rnd)
    \/ \E rnd \in RandomSuffixes : TrustSecond(rnd)
    \/ \E d \in LimiterTickSteps : Tick(d)
    \/ Sweep

SpecTrust == TrustInit /\ [][TrustNext]_vars

----------------------------------------------------------------------------
(* The limiter under the configurations at the edge of its domain: a limit *)
(* of zero or less, a window of zero seconds.                              *)

EdgeInit ==
    /\ LimiterInit({[maxRequests |-> n, windowSeconds |-> w,
                      trustedProxyHeader |-> Some("x-forwarded-for")] :
                        n \in {0 - 1, 0, 1, 2}, w \in {0, 1}}
                   \ {[maxRequests |-> n, windowSeconds |-> 1,
                       trustedProxyHeader |-> Some("x-forwarded-for")] :
                         n \in {1, 2}})
    /\ vo = VoIdle
    /\ PostAbsent
    /\ ProbesIdle

EdgeNext ==
    \* two identified clients and one that is not
    \/ \E request \in {[xff |-> x, cf |-> None, realIp |-> None] :
                          x \in {None, Some("1.2.3.4"), Some("5.6.7.8")}},
          rnd \in RandomSuffixes : Check(request, rnd)
    \/ \E d \in LimiterTickSteps : Tick(d)
    \/ Sweep

SpecEdge == EdgeInit /\ [][EdgeNext]_vars

----------------------------------------------------------------------------
(* createRateLimitHeaders called on its own, on the results checkRateLimit *)
(* can return.                                                             *)


HeaderResults ==
    \* reset times in milliseconds, on and off a whole second
    {r \in [allowed : BOOLEAN, limit : {0, 10, 20},
            remaining : {0, 7, 19},
             resetTime : {0, 999, 1000, 1499, 1500, 60000, 61750,
                          1700000000, 1700000999}] :
        /\ r.remaining <= r.limit
        /\ r.remaining > 0 => r.allowed
        /\ r.limit = 0 => ~r.allowed}

HeadersInit ==
    /\ LimiterInit(PairConfigs)
    /\ vo = VoIdle
    /\ PostAbsent
    /\ pair = PairIdle
    /\ server = ServerIdle
    /\ shadow = ShadowIdle
    /\ grants = NoGrants
    /\ \E r \in HeaderResults : hdr = [result |-> r, headers |-> None]

\* const headers = createRateLimitHeaders(result)
CreateHeaders ==
    /\ hdr.headers = None
    /\ hdr' = [hdr EXCEPT !.headers = Some(CreateRateLimitHeaders(hdr.result))]
    /\ UNCHANGED <<limiterVars, vo, postVars, pair, server, shadow, grants>>

HeadersNext == CreateHeaders

SpecHeaders == HeadersInit /\ [][HeadersNext]_vars

----------------------------------------------------------------------------
(* The limiter next to a copy of itself that receives the same calls, with *)
(* the same clock and the same random digits, and has no cleanup timer.    *)

SweepConfigs ==
    {[maxRequests |-> n, windowSeconds |-> 1,
      trustedProxyHeader |-> Some("x-forwarded-for")] : n \in {1, 2}}

SweepInit ==
    /\ LimiterInit(SweepConfigs)
    /\ vo = VoIdle
    /\ PostAbsent
    /\ pair = PairIdle
    /\ hdr = HdrIdle
    /\ server = ServerIdle
    /\ shadow = ShadowIdle
    /\ grants = NoGrants

\* one call of checkRateLimit(request, config), made to both limiters
SweepCheck(request, rnd) ==
    /\ nCalls < MaxCalls
    /\ LET r == CheckRateLimit(rateLimitStore, request, config, now, rnd)
           q == CheckRateLimit(shadow.store, request, config, now, rnd)
       IN  /\ Cardinality(DOMAIN windows \cup {r.clientId}) <= MaxClients
           /\ rateLimitStore' = r.store
           /\ lastCall' = Some([clientId |-> r.clientId, at |-> now,
                                result |-> r.result])
           /\ windows' = ObserveWindow(windows, r.clientId, now, config, r.result)
           /\ shadow' = [store |-> q.store, result |-> Some(q.result)]
    /\ nCalls' = nCalls + 1
    /\ UNCHANGED <<now, sweepDue, config, ticks, vo, postVars, pair, hdr, server, grants>>

SweepNext ==
    \* two identified clients
    \/ \E request \in {[xff |-> Some(x), cf |-> None, realIp |-> None] :
                          x \in {"1.2.3.4", "5.6.7.8"}},
          rnd \in RandomSuffixes : SweepCheck(request, rnd)
    \* the clock advances by the length of a window, or by the interval of
    \* the timer
    \/ \E d \in {1000, CLEANUP_INTERVAL_MS} : Tick(d)
    \/ Sweep

SpecSweep == SweepInit /\ [][SweepNext]_vars

----------------------------------------------------------------------------
(* The limiter with a clock that keeps running and a timer that keeps      *)
(* firing.  The exploration lets the clock advance MaxTicks times in small *)
(* steps and then once more, by a whole interval of the timer, so that the *)
(* timer comes due again after the windows opened until then have elapsed. *)

LiveInit ==
    /\ LimiterInit({[maxRequests |-> 1, windowSeconds |-> 1,
                      trustedProxyHeader |-> Some("x-forwarded-for")]})
    /\ vo = VoIdle
    /\ PostAbsent
    /\ ProbesIdle

LiveTick(d) ==
    /\ \/ /\ ticks < MaxTicks
          /\ d \in LimiterTickSteps
       \/ /\ ticks = MaxTicks
          /\ d = CLEANUP_INTERVAL_MS
          /\ now < sweepDue
    /\ now' = now + d
    /\ ticks' = ticks + 1
    /\ UNCHANGED <<rateLimitStore, sweepDue, config, lastCall, windows, nCalls,
                   vo, postVars, probeVars>>

LiveNext ==
    \* an identified client and one that is not
    \/ \E request \in {[xff |-> x, cf |-> None, realIp |-> None] :
                          x \in {None, Some("1.2.3.4")}},
          rnd \in RandomSuffixes : Check(request, rnd)
    \/ \E d \in LimiterTickSteps \cup {CLEANUP_INTERVAL_MS} : LiveTick(d)
    \/ Sweep

SpecLive ==
    /\ LiveInit
    /\ [][LiveNext]_vars
    /\ WF_vars(\E d \in LimiterTickSteps \cup {CLEANUP_INTERVAL_MS} : LiveTick(d))
    /\ WF_vars(Sweep)

----------------------------------------------------------------------------
(* One client id calling in bursts around the end of its window.           *)

MaxBurst == 4          \* checkRateLimit calls in one behaviour of a burst

BurstInit ==
    /\ LimiterInit(SweepConfigs)
    /\ vo = VoIdle
    /\ PostAbsent
    /\ pair = PairIdle
    /\ hdr = HdrIdle
    /\ server = ServerIdle
    /\ shadow = ShadowIdle
    /\ grants = NoGrants

\* one call of checkRateLimit(request, config) for the client
BurstCheck(rnd) ==
    /\ nCalls < MaxBurst
    /\ LET request == [xff |-> Some("1.2.3.4"), cf |-> None, realIp |-> None]
           r == CheckRateLimit(rateLimitStore, request, config, now, rnd)
       IN
       /\ rateLimitStore' = r.store
       /\ lastCall' = Some([clientId |-> r.clientId, at |-> now,
                            result |-> r.result])
       /\ windows' = ObserveWindow(windows, r.clientId, now, config, r.result)
       /\ grants' = IF r.result.allowed
                    THEN Append(grants, [at |-> now, resetTime |-> r.result.resetTime])
                    ELSE grants
    /\ nCalls' = nCalls + 1
    /\ UNCHANGED <<now, sweepDue, config, ticks, vo, postVars, pair, hdr, server, shadow>>

BurstNext ==
    \/ \E rnd \in RandomSuffixes : BurstCheck(rnd)
    \* the clock advances by a millisecond, or by the length of the window
    \/ \E d \in {1, 1000} : Tick(d)
    \/ Sweep

SpecBurst == BurstInit /\ [][BurstNext]_vars

----------------------------------------------------------------------------
(* Further properties of the limiter *)

\* the client id is a fallback id: the request was not identified by a
\* trusted header holding an IP literal
IsFallbackId(clientId) == StartsWith(clientId, "unknown-")

\* C16: a request that is not identified by a trusted header gets a client id
\* that differs from every key already in the store: its check leaves all
\* existing entries unchanged, creates one new entry with count 1, and is
\* allowed whenever maxRequests >= 1, however many such requests came before.
C16_FallbackIdIsFresh ==
    [][(IsCheckStep /\ IsFallbackId(Get(lastCall').clientId)) =>
        LET id == Get(lastCall').clientId IN
        /\ id \notin DOMAIN rateLimitStore
        /\ \A c \in DOMAIN rateLimitStore :
              c \in DOMAIN rateLimitStore' /\ rateLimitStore'[c] = rateLimitStore[c]
        /\ DOMAIN rateLimitStore' = DOMAIN rateLimitStore \cup {id}
        /\ rateLimitStore'[id].count = 1
        /\ config.maxRequests >= 1 => Get(lastCall').result.allowed
      ]_vars

\* the first comma-separated entry of a header value, surrounding
\* whitespace removed
FirstEntry(h) == Trim(Split(Get(h), ",")[1])

\* C17 as stated: with trustedProxyHeader = 'x-forwarded-for' the client id
\* is the first comma-separated entry of the header, trimmed: two requests
\* with the same first entry are counted in the same bucket whatever the
\* later entries, two requests whose first entries differ never are.
C17_FirstEntryIsTheBucket ==
    pair.stage = "two" =>
        /\ pair.id1 = FirstEntry(pair.first)
        /\ pair.id2 = FirstEntry(pair.second)
        /\ FirstEntry(pair.first) = FirstEntry(pair.second) => pair.id1 = pair.id2
        /\ FirstEntry(pair.first) # FirstEntry(pair.second) => pair.id1 # pair.id2

\* C17 as amended: when the first entry, trimmed, is a valid IPv4 or IPv6
\* literal the client id is that entry: two requests with the same valid
\* first entry are counted in the same bucket whatever the later entries
\* (the second count is the first plus one while the window is open), and two
\* requests whose first entries differ, at least one of them valid, are
\* never counted in the same bucket.
C17_ValidFirstEntryIsTheBucket ==
    pair.stage = "two" =>
        LET e1 == FirstEntry(pair.first)
            e2 == FirstEntry(pair.second)
            valid1 == e1 # "" /\ IsValidIpAddress(e1)
            valid2 == e2 # "" /\ IsValidIpAddress(e2)
        IN  /\ valid1 => pair.id1 = e1
            /\ valid2 => pair.id2 = e2
            /\ (valid1 /\ e1 = e2) =>
                  /\ pair.id1 = pair.id2
                  /\ pair.at2 <= pair.reset1 => pair.count2 = pair.count1 + 1
            /\ ((valid1 \/ valid2) /\ e1 # e2) =>
                  /\ pair.id1 # pair.id2
                  /\ pair.count2 = 1

\* two requests whose headers differ after the first entry have been counted
\* in the one bucket of that entry
C17_Witness ==
    /\ pair.stage = "two"
    /\ pair.first = Some("1.2.3.4,5.6.7.8")
    /\ pair.second = Some(" 1.2.3.4 , 10.0.0.1")
    /\ pair.id1 = "1.2.3.4"
    /\ pair.id2 = "1.2.3.4"
    /\ pair.count2 = 2

\* C18: with maxRequests zero or negative every checkRateLimit call returns
\* allowed = FALSE with remaining = 0, for every client id, identified or
\* not, at every point of every window, the first call of a fresh window
\* included.
C18_NonPositiveLimitDeniesAll ==
    config.maxRequests <= 0 =>
        /\ IsSome(lastCall) =>
              /\ ~Get(lastCall).result.allowed
              /\ Get(lastCall).result.remaining = 0
        /\ \A c \in DOMAIN windows :
              /\ ~windows[c].last.allowed
              /\ windows[c].last.remaining = 0
              /\ IsSome(windows[c].prev) =>
                    /\ ~Get(windows[c].prev).allowed
                    /\ Get(windows[c].prev).remaining = 0

\* under a negative limit an identified client has been denied on the first
\* call of a fresh window, after an earlier window of its own
C18_Witness ==
    /\ config.maxRequests < 0
    /\ \E c \in DOMAIN windows :
          /\ ~IsFallbackId(c)
          /\ windows[c].k = 1
          /\ IsSome(windows[c].prev)
          /\ ~windows[c].last.allowed
          /\ windows[c].last.remaining = 0

\* C19 as stated: with windowSeconds = 0 every checkRateLimit call starts a
\* new window: each call sees count 1, so each is allowed when
\* maxRequests >= 1 and reports remaining = maxRequests - 1.
C19_ZeroWindowEveryCallIsFresh ==
    [][(IsCheckStep /\ config.windowSeconds = 0) =>
        LET c == Get(lastCall').clientId
            r == Get(lastCall').result
        IN  /\ rateLimitStore'[c].count = 1
            /\ config.maxRequests >= 1 =>
                  r.allowed /\ r.remaining = config.maxRequests - 1
      ]_vars

\* C19 as amended: with windowSeconds = 0 every call made after the
\* millisecond of the call that opened the client's window, or for a client
\* without an entry, starts a new window: it sees count 1, is allowed when
\* maxRequests >= 1 and reports remaining = maxRequests - 1; a call made in
\* the same millisecond as the one that opened the window is counted in it.
C19_ZeroWindowLaterCallIsFresh ==
    [][(IsCheckStep /\ config.windowSeconds = 0) =>
        LET c == Get(lastCall').clientId
            r == Get(lastCall').result
            later == \/ c \notin DOMAIN rateLimitStore
                     \/ now > rateLimitStore[c].resetTime
        IN  /\ r.resetTime = now
            /\ later =>
                  /\ rateLimitStore'[c].count = 1
                  /\ config.maxRequests >= 1 =>
                        r.allowed /\ r.remaining = config.maxRequests - 1
            /\ ~later =>
                  /\ rateLimitStore[c].resetTime = now
                  /\ rateLimitStore'[c].count = rateLimitStore[c].count + 1
      ]_vars

\* under a zero window and a limit of 1, a client was denied on its second
\* call in one millisecond and allowed on its next call, in a new window
C19_Witness ==
    /\ config.windowSeconds = 0
    /\ config.maxRequests = 1
    /\ \E c \in DOMAIN windows :
          /\ windows[c].k = 1
          /\ IsSome(windows[c].prev)
          /\ ~Get(windows[c].prev).allowed
          /\ windows[c].lastAt > windows[c].prevAt
          /\ windows[c].last.allowed
          /\ windows[c].last.remaining = 0

\* the number a string of decimal digits denotes
RECURSIVE DecimalValue(_)
DecimalValue(s) ==
    IF s = "" THEN 0
    ELSE DecimalValue(SubSeq(s, 1, Len(s) - 1)) * 10 + DigitValue(CharAt(s, Len(s)))

\* C20: createRateLimitHeaders returns exactly three values:
\* X-RateLimit-Limit is the limit, X-RateLimit-Remaining the remaining count
\* and X-RateLimit-Reset the whole Unix seconds of resetTime, the
\* milliseconds divided by 1000 and truncated downward, never rounded up.
C20_HeadersAreLimitRemainingAndWholeSeconds ==
    IsSome(hdr.headers) =>
        LET h == Get(hdr.headers)
            r == hdr.result
            seconds == DecimalValue(h["X-RateLimit-Reset"])
        IN  /\ DOMAIN h = RateLimitHeaderNames
            /\ h["X-RateLimit-Limit"] = ToString(r.limit)
            /\ h["X-RateLimit-Remaining"] = ToString(r.remaining)
            /\ h["X-RateLimit-Reset"] = ToString(seconds)
            /\ seconds * 1000 <= r.resetTime
            /\ r.resetTime - seconds * 1000 < 1000
            /\ (r.limit = 10 /\ r.remaining = 7 /\ r.resetTime = 1700000000) =>
                  h = ("X-RateLimit-Limit" :> "10") @@
                      ("X-RateLimit-Remaining" :> "7") @@
                      ("X-RateLimit-Reset" :> "1700000")

\* the headers of a result whose reset time lies 999 ms past a whole second
C20_Witness ==
    /\ IsSome(hdr.headers)
    /\ hdr.result.limit = 10
    /\ hdr.result.remaining = 7
    /\ hdr.result.resetTime = 1700000999
    /\ Get(hdr.headers)["X-RateLimit-Reset"] = "1700000"

\* C21: the store holds one entry per client id at most, and the count of an
\* entry is the number of checkRateLimit calls made for the id since the
\* entry was created, denied calls included; so count is at least 1 after
\* any call and never decreases while the entry lives: it goes back to 1
\* only when the entry is replaced at window rollover.
C21_CountIsCallsSinceCreation ==
    /\ [](\A c \in DOMAIN rateLimitStore :
            /\ c \in DOMAIN windows
            /\ rateLimitStore[c].count = windows[c].k
            /\ rateLimitStore[c].count >= 1)
    /\ [][/\ IsCheckStep => Get(lastCall').clientId \in DOMAIN rateLimitStore'
          /\ \A c \in DOMAIN rateLimitStore \cap DOMAIN rateLimitStore' :
                \/ rateLimitStore'[c].count = rateLimitStore[c].count
                \/ /\ IsCheckStep
                   /\ Get(lastCall').clientId = c
                   /\ \/ rateLimitStore'[c].count = rateLimitStore[c].count + 1
                      \/ /\ now > rateLimitStore[c].resetTime
                         /\ rateLimitStore'[c].count = 1
         ]_vars

\* under a limit of 1 a client id has made three calls in one window: the
\* second and the third were denied, and the entry counts all three
C21_Witness ==
    /\ config.maxRequests = 1
    /\ \E c \in DOMAIN rateLimitStore :
          /\ rateLimitStore[c].count = 3
          /\ windows[c].k = 3
          /\ ~windows[c].last.allowed
          /\ ~Get(windows[c].prev).allowed

\* C22: the window is fixed, not sliding: the resetTime of an entry is set
\* once, when the entry is created, to creation time + windowSeconds*1000,
\* and no later call in the window changes it: every result returned in one
\* window reports that resetTime, and further requests, allowed or denied,
\* never extend the window.
C22_WindowIsFixed ==
    \A c \in DOMAIN windows :
        LET windowEnd == windows[c].start + config.windowSeconds * 1000 IN
        /\ windows[c].last.resetTime = windowEnd
        /\ c \in DOMAIN rateLimitStore => rateLimitStore[c].resetTime = windowEnd

\* a client id was denied on a call made a full second into its window, at
\* the very end of it, and the result still reports the end set at creation
C22_Witness ==
    \E c \in DOMAIN windows :
        /\ windows[c].k = 3
        /\ ~windows[c].last.allowed
        /\ windows[c].lastAt = windows[c].start + config.windowSeconds * 1000
        /\ windows[c].last.resetTime = windows[c].lastAt
        /\ c \in DOMAIN rateLimitStore
        /\ rateLimitStore[c].resetTime = windows[c].lastAt

\* the step is a run of the cleanup timer
IsSweepStep == sweepDue' # sweepDue

\* C24: the sweep deletes exactly the entries whose resetTime is strictly
\* earlier than the current time and leaves every other entry as it is; and
\* whenever it runs between the requests, every later checkRateLimit call
\* returns the result (allowed, remaining, resetTime) that the same sequence
\* of requests gets without any sweep.
C24_SweepIsUnobservable ==
    /\ [][IsSweepStep =>
            /\ DOMAIN rateLimitStore' =
                  {c \in DOMAIN rateLimitStore : ~(rateLimitStore[c].resetTime < now)}
            /\ \A c \in DOMAIN rateLimitStore' :
                  rateLimitStore'[c] = rateLimitStore[c]
         ]_vars
    /\ [][IsCheckStep =>
            /\ Get(shadow'.result).allowed = Get(lastCall').result.allowed
            /\ Get(shadow'.result).remaining = Get(lastCall').result.remaining
            /\ Get(shadow'.result).resetTime = Get(lastCall').result.resetTime
         ]_vars

\* the sweep has removed the entry of a client id, which the limiter without
\* the timer still holds, and the id has then been denied in a new window of
\* its own, with the same result from both limiters
C24_Witness ==
    /\ IsSome(lastCall)
    /\ shadow.result = Some(Get(lastCall).result)
    /\ ~Get(lastCall).result.allowed
    /\ IsSome(windows[Get(lastCall).clientId].prev)
    /\ windows[Get(lastCall).clientId].start >= sweepDue - CLEANUP_INTERVAL_MS
    /\ \E d \in DOMAIN shadow.store : d \notin DOMAIN rateLimitStore

\* the store holds an entry whose window has elapsed
HasElapsedEntry ==
    \E c \in DOMAIN rateLimitStore : now > rateLimitStore[c].resetTime

\* C25: if the sweep keeps firing at its interval, every entry whose window
\* has elapsed and whose client id makes no further request is eventually
\* removed from the store; the entries of abandoned ids, per-request fallback
\* ids included, do not stay for ever.  An elapsed entry stays elapsed until
\* it is removed or its client id calls again, so it is enough that the
\* store is time and again free of elapsed entries.
C25_ElapsedEntriesAreRemoved == HasElapsedEntry ~> ~HasElapsedEntry

\* the timer has run, and the entry of a fallback id, never used again, and
\* every other entry have been removed from the store
C25_Witness ==
    /\ rateLimitStore = EmptyStore
    /\ sweepDue > now
    /\ \E c \in DOMAIN windows : IsFallbackId(c) /\ now > windows[c].last.resetTime
    /\ \E c \in DOMAIN windows : ~IsFallbackId(c)

\* the allowed calls made in the closed interval [from, from + length]
GrantsWithin(from, length) ==
    {i \in 1..Len(grants) : from <= grants[i].at /\ grants[i].at <= from + length}

\* the allowed calls counted in the window that ends at resetTime
GrantsOfWindow(resetTime) ==
    {i \in 1..Len(grants) : grants[i].resetTime = resetTime}

\* C29: for one client id under a fixed configuration at most maxRequests
\* calls are allowed within a single window, and in any time interval of
\* length windowSeconds, which can straddle the end of one window and the
\* start of the next, at most 2 x maxRequests calls are allowed.  An interval
\* that holds most allowed calls can be taken to start at one of them.
C29_BurstAtWindowEdgeIsBounded ==
    \A i \in 1..Len(grants) :
        /\ Cardinality(GrantsOfWindow(grants[i].resetTime)) <= config.maxRequests
        /\ Cardinality(GrantsWithin(grants[i].at, config.windowSeconds * 1000))
              <= 2 * config.maxRequests

\* under a limit of 2 three calls have been allowed within one second: the
\* last of one window and the first two of the next
C29_Witness ==
    /\ config.maxRequests = 2
    /\ \E i \in 1..Len(grants) :
          LET within == GrantsWithin(grants[i].at, config.windowSeconds * 1000) IN
          /\ Cardinality(within) = 3
          /\ Cardinality({grants[j].resetTime : j \in within}) = 2

\* the values of the proxy headers a request carries
HeaderValues(request) ==
    {Get(v) : v \in {w \in {request.xff, request.cf, request.realIp} : IsSome(w)}}

\* C30: only the configured trusted header is read to identify the client:
\* with trustedProxyHeader = h two requests that carry the same value of
\* header h are assigned to the same bucket, or both to fallback ids,
\* whatever the other two proxy headers hold; with no trusted header
\* configured cf-connecting-ip, x-real-ip and x-forwarded-for are all
\* ignored: every request gets a fallback id, and no header value selects a
\* bucket.
C30_OnlyTrustedHeaderIdentifies ==
    pair.stage = "two" =>
        LET r1 == Get(pair.first)
            r2 == Get(pair.second)
            h == config.trustedProxyHeader
            fallback1 == IsFallbackId(pair.id1)
            fallback2 == IsFallbackId(pair.id2)
        IN  /\ (IsSome(h) /\ HeaderOf(r1, Get(h)) = HeaderOf(r2, Get(h))) =>
                  \/ ~fallback1 /\ pair.id1 = pair.id2
                  \/ fallback1 /\ fallback2
            /\ (IsSome(h) /\ ~fallback1) => Some(pair.id1) = HeaderOf(r1, Get(h))
            /\ (IsSome(h) /\ ~fallback2) => Some(pair.id2) = HeaderOf(r2, Get(h))
            /\ ~IsSome(h) =>
                  /\ fallback1 /\ fallback2
                  /\ pair.id1 \notin HeaderValues(r1) \cup HeaderValues(r2)
                  /\ pair.id2 \notin HeaderValues(r1) \cup HeaderValues(r2)

\* x-real-ip is trusted: two requests with the same x-real-ip value and
\* different valid addresses in the other two headers share the bucket of
\* that value
C30_Witness ==
    /\ pair.stage = "two"
    /\ config.trustedProxyHeader = Some("x-real-ip")
    /\ Get(pair.first).realIp = Some("5.6.7.8")
    /\ Get(pair.second).realIp = Some("5.6.7.8")
    /\ Get(pair.first).xff = Some("1.2.3.4")
    /\ Get(pair.second).xff = None
    /\ Get(pair.first).cf = None
    /\ Get(pair.second).cf = Some("1.2.3.4")
    /\ pair.id1 = "5.6.7.8"
    /\ pair.id2 = "5.6.7.8"
    /\ pair.count2 = 2

----------------------------------------------------------------------------
(* Properties of the server under concurrent requests *)

\* the handlers that have been through checkRateLimit for client id c in the
\* window that ends at resetTime
CheckedIn(c, resetTime) ==
    {i \in 1..Len(server.handlers) :
        /\ IsSome(server.handlers[i].rate)
        /\ server.handlers[i].clientId = c
        /\ Get(server.handlers[i].rate).resetTime = resetTime}

\* the requests of client id c counted in that window before the observation
EarlierIn(c, resetTime) ==
    IF c = EarlierClient
       /\ resetTime = server.earlierAt + PostWindowSeconds * 1000
    THEN server.earlier ELSE 0

\* C23: a handler validates the origin and checks the rate limit in one
\* piece, before its first suspension point; so under every interleaving of
\* the handlers, the clock and the sweep no increment is lost, and the
\* requests of one client id that pass the limiter within one window never
\* exceed maxRequests (20).
C23_NoLostIncrementUnderInterleaving ==
    /\ \A i \in 1..Len(server.handlers) :
          LET h == server.handlers[i] IN
          /\ h.pc \in {"parsing", "searching"} =>
                IsSome(h.rate) /\ Get(h.rate).allowed
          /\ h.pc = "done" =>
                /\ IsSome(h.response)
                /\ Get(h.response).status = 403 <=> ~IsSome(h.rate)
                /\ Get(h.response).status = 429 <=>
                      (IsSome(h.rate) /\ ~Get(h.rate).allowed)
    /\ \A c \in DOMAIN rateLimitStore :
          rateLimitStore[c].count =
              EarlierIn(c, rateLimitStore[c].resetTime)
              + Cardinality(CheckedIn(c, rateLimitStore[c].resetTime))
    /\ \A i \in 1..Len(server.handlers) :
          IsSome(server.handlers[i].rate) =>
              LET c == server.handlers[i].clientId
                  resetTime == Get(server.handlers[i].rate).resetTime
                  passed == {j \in CheckedIn(c, resetTime) :
                                Get(server.handlers[j].rate).allowed}
              IN  Min(EarlierIn(c, resetTime), PostMaxRequests)
                  + Cardinality(passed) <= PostMaxRequests

\* after 19 earlier requests the first handler passed the limiter as the 20th
\* and is suspended in request.json(); the second arrived meanwhile and was
\* answered 429, and the entry counts 21
C23_Witness ==
    /\ server.earlier = PostMaxRequests - 1
    /\ Len(server.handlers) = 2
    /\ server.handlers[1].pc = "parsing"
    /\ server.handlers[2].pc = "done"
    /\ Get(server.handlers[2].response).status = 429
    /\ server.handlers[2].at = server.handlers[1].at
    /\ EarlierClient \in DOMAIN rateLimitStore
    /\ rateLimitStore[EarlierClient].count = PostMaxRequests + 1

\* handler j is the next one after handler i that reached the limiter for
\* the same client id
IsNextCheckOf(i, j) ==
    /\ i < j
    /\ IsSome(server.handlers[j].rate)
    /\ server.handlers[j].clientId = server.handlers[i].clientId
    /\ \A k \in (i + 1)..(j - 1) :
          ~(/\ IsSome(server.handlers[k].rate)
            /\ server.handlers[k].clientId = server.handlers[i].clientId)

\* C26: every 429 response carries a Retry-After header, with the same value
\* as retryAfter in the body, equal to ceil((resetTime - now) / 1000)
\* seconds; and the value is enough for self-pacing: a request of the same
\* client id sent Retry-After seconds or more after the rejected one, with no
\* other request of that id in between, is not rate-limited.
C26_RetryAfterIsEnough ==
    \A i \in 1..Len(server.handlers) :
        LET h == server.handlers[i] IN
        (IsSome(h.response) /\ Get(h.response).status = 429) =>
            LET resp == Get(h.response)
                seconds == Ceil(Get(h.rate).resetTime - h.at, 1000)
            IN  /\ "Retry-After" \in DOMAIN resp.headers
                /\ resp.headers["Retry-After"] = ToString(seconds)
                /\ resp.retryAfter = Some(seconds)
                /\ \A j \in 1..Len(server.handlers) :
                      (/\ IsNextCheckOf(i, j)
                       /\ server.handlers[j].at >= h.at + seconds * 1000)
                      => Get(server.handlers[j].rate).allowed

\* the entries of the two stores differ for client id c at most
SameExceptAt(before, after, c) ==
    \A d \in (DOMAIN before \cup DOMAIN after) \ {c} :
        StoreGet(after, d) = StoreGet(before, d)

\* C27: of the requests, only those that pass origin validation change the
\* rate-limit store: a POST rejected with 403 performs no rate-limit check
\* and leaves the store as it is, and a POST that passes origin validation
\* performs exactly one check, for exactly one client id, whatever its final
\* status (200, 400, 429 or 500): a malformed body or a failed search has
\* consumed quota all the same.
C27_OnlyValidatedRequestsConsumeQuota ==
    /\ [][post' # post =>
            IF post.pc = "idle" /\ post'.origin = "true"
            THEN /\ nCalls' = nCalls + 1
                 /\ IsSome(post'.rate)
                 /\ \E c \in DOMAIN rateLimitStore' :
                       /\ SameExceptAt(rateLimitStore, rateLimitStore', c)
                       /\ rateLimitStore'[c].count =
                             (IF c \in DOMAIN rateLimitStore
                                 /\ ~(now > rateLimitStore[c].resetTime)
                              THEN rateLimitStore[c].count ELSE 0) + 1
            ELSE /\ nCalls' = nCalls
                 /\ rateLimitStore' = rateLimitStore
                 /\ post'.rate = post.rate
         ]_vars
    /\ [](Responded =>
            /\ Status \in {200, 400, 403, 429, 500}
            /\ Status = 403 <=> nCalls = 0
            /\ Status # 403 <=> nCalls = 1)

\* after 19 earlier requests a request passed the limiter as the 20th and
\* its search failed: the answer is 500 and the entry counts 20
C27_Witness ==
    /\ Responded
    /\ Status = 500
    /\ post.searched = "failed"
    /\ nCalls = 1
    /\ EarlierClient \in DOMAIN rateLimitStore
    /\ rateLimitStore[EarlierClient].count = PostMaxRequests

\* the values NODE_ENV has in the deployment, an empty string not counted
NodeEnvValues ==
    {Get(v) : v \in {w \in {deploy.metaNodeEnv, deploy.processNodeEnv} :
                        IsSome(w) /\ Get(w) # ""}}

\* C28: POST calls validateOrigin without an environment override, so the
\* mode comes from NODE_ENV, and an unset or empty NODE_ENV counts as
\* development: then POST accepts the requests that have neither Origin nor
\* Referer and the requests from loopback origins; such requests are answered
\* 403 only when NODE_ENV has a value other than 'development' and 'test'.
C28_UnsetNodeEnvIsDevelopment ==
    (post.pc # "idle"
     /\ vo.referer = None
     /\ vo.origin \in {None, Some("")} \cup {Some(o) : o \in LoopbackOrigins}) =>
        /\ NodeEnvValues = {} =>
              /\ post.origin = "true"
              /\ IsSome(post.rate)
              /\ Responded => Status # 403
        /\ NodeEnvValues # {} /\ NodeEnvValues \subseteq {"development", "test"} =>
              post.origin = "true"
        /\ (Responded /\ Status = 403) =>
              \E v \in NodeEnvValues : v \notin {"development", "test"}

\* NODE_ENV is set to the empty string in both places, and a request without
\* Origin and Referer has passed origin validation and reached the limiter
C28_Witness ==
    /\ deploy.metaNodeEnv = Some("")
    /\ deploy.processNodeEnv = Some("")
    /\ vo.origin = None
    /\ vo.referer = None
    /\ post.origin = "true"
    /\ IsSome(post.rate)
    /\ post.pc = "parsing"

----------------------------------------------------------------------------
(* Further properties of validateOrigin *)

\* C12: when the Origin header is absent or empty and the Referer header has
\* a value that is not a parsable URL, validateOrigin raises an error instead
\* of returning true or false, in every environment mode.
C12_MalformedRefererRaises ==
    /\ (vo.result # "none" /\ RefererUnparsable(vo.origin, vo.referer))
          => vo.result = "TypeError"
    /\ (vo.twinResult # "none" /\ RefererUnparsable(vo.origin, vo.twinReferer))
          => vo.twinResult = "TypeError"

\* validateOrigin has raised in development mode, where a request without
\* any origin would have been accepted, for a request with an empty Origin
C12_Witness ==
    /\ vo.origin = Some("")
    /\ vo.referer = Some("not-a-valid-url")
    /\ vo.currentEnv.isDevelopment
    /\ vo.result = "TypeError"

\* h is written as an origin: scheme://host or scheme://host:port, with no
\* userinfo, path, query or fragment
IsOriginForm(h) ==
    LET colon == IndexFrom(h, ":", 1) IN
    /\ colon > 1
    /\ SubSeq(h, colon, colon + 2) = "://"
    /\ IndexOfAny(SubSeq(h, colon + 3, Len(h)), {"/", "\\", "?", "#", "@"}, 1) = 0

\* the scheme, host and port a header value denotes, the host in lower case
\* and a default port left out; None when it denotes none
Denoted(h) ==
    IF UrlOrigin(h) = Some("null") THEN None ELSE UrlOrigin(h)

\* the request's origin, from the Origin header or else from the Referer,
\* denotes the scheme, host and port of the site
DenotesSiteOrigin(origin, referer, siteUrl) ==
    /\ IsSome(siteUrl)
    /\ IsSome(Denoted(Get(siteUrl)))
    /\ IF Truthy(origin)
       THEN IsOriginForm(Get(origin)) /\ Denoted(Get(origin)) = Denoted(Get(siteUrl))
       ELSE Truthy(referer) /\ Denoted(Get(referer)) = Denoted(Get(siteUrl))

\* C14: validateOrigin accepts a request whose origin denotes the same
\* scheme, host and port as the site origin, the host compared without regard
\* to case and an explicit default port taken as no port, whether the origin
\* comes from the Origin header or from the Referer.
C14_SameOriginAcceptedUpToCaseAndDefaultPort ==
    (vo.result # "none" /\ DenotesSiteOrigin(vo.origin, vo.referer, vo.siteUrl))
        => vo.result = "true"

----------------------------------------------------------------------------
(* Further properties of the POST handler *)

\* what Number.parseInt(s, 10) gives for the limit strings of JsonValues,
\* after ECMAScript: the integer, None for NaN and for Infinity
ParseIntTable ==
    (" 7abc" :> Some(7)) @@ ("" :> None) @@ ("abc" :> None) @@
    ("-4" :> Some(0 - 4)) @@ ("+15" :> Some(15)) @@ ("21" :> Some(21)) @@
    ("12.9" :> Some(12)) @@ ("0x1F" :> Some(0)) @@ (Repeat("9", 400) :> None)

\* n clamped into [1, 20]
Clamp(n) == IF n < 1 THEN 1 ELSE IF n > 20 THEN 20 ELSE n

\* the largest integer not above tenths/10
FloorOfTenths(tenths) ==
    CHOOSE n \in -1000..1000 : 10 * n <= tenths /\ tenths < 10 * n + 10

\* the limit the claim prescribes for a limit field (None: absent)
PrescribedLimit(limit) ==
    IF ~IsSome(limit) THEN 10
    ELSE IF Get(limit).type = "number" /\ Get(limit).finite
    THEN Clamp(FloorOfTenths(Get(limit).num))
    ELSE IF Get(limit).type = "string" /\ IsSome(ParseIntTable[Get(limit).str])
    THEN Clamp(Get(ParseIntTable[Get(limit).str]))
    ELSE 10

\* C15: whatever the body's limit field, the limit handed to search is an
\* integer from 1 to 20: 10 when the field is absent, is not a finite number
\* and is not a string that parses to an integer; otherwise the floor of the
\* number, or the parsed integer of the string, clamped into [1, 20].
C15_ForwardedLimitIsClamped ==
    IsSome(post.searchArgs) =>
        LET forwarded == Get(post.searchArgs).limit
            field == Property(Get(post.json).value, "limit")
        IN  /\ forwarded \in 1..20
            /\ forwarded = PrescribedLimit(field)

\* search has been called with limit 1 for a body whose limit is -0.5
C15_Witness ==
    /\ post.searchCalls = 1
    /\ Property(Get(post.json).value, "limit") = Some(JNumber(0 - 5))
    /\ Get(post.searchArgs).limit = 1

\* C13: the POST handler handles the error validateOrigin raises for a
\* malformed Referer and treats it as a rejection: the request is answered
\* with a rejection response, search is not called, no rate-limit check is
\* made (the store is unchanged) and the error does not leave the handler.
C13_MalformedRefererIsRejected ==
    (post.pc = "done" /\ post.origin = "TypeError") =>
        /\ ~post.threw
        /\ Responded
        /\ Status \in 400..499
        /\ post.searchCalls = 0
        /\ ~IsSome(post.rate)

====
